---- MODULE Spec2Model ----
(***************************************************************************)
(* RippleTruth: the Streamlit run handler (app.py), the input resolver,    *)
(* the scoring pipeline (core/pipeline.py) and its stages.                 *)
(*                                                                         *)
(* Numbers.  Every real number of the program is a float in [0,1] (or in   *)
(* [0,100] for the RippleTruth index).  The model keeps a real x as the    *)
(* integer x * ONE.  ONE is chosen so that every weighted sum of the       *)
(* scoring formulas is exact on the values the model produces: features    *)
(* are multiples of ONE / FeatureDen, reported metrics are multiples of    *)
(* ONE / 10^4 (round(x, 4)).  The two irrational features (a cosine, a     *)
(* standard deviation) are truncated to 1 / FeatureDen.                    *)
(*                                                                         *)
(* Text.  A text is a sequence of tokens; a token is a word followed by an *)
(* optional full stop.  The string it stands for is the tokens joined by   *)
(* single blanks, all lower case.                                          *)
(***************************************************************************)
EXTENDS Integers, Sequences, FiniteSets, TLC

\* ------------------------------------------------------------------------
\* Bounds of the model
\* ------------------------------------------------------------------------
\* longest text typed by the user, in tokens
MaxLen == 4
\* longest text of rule keywords the classifier is called on, in tokens
ClassifierLen == 2
\* the feature grid of the scorer harness has the points 0, 1/Grid, .., 1
Grid == 4

\* ------------------------------------------------------------------------
\* State
\* ------------------------------------------------------------------------
VARIABLES
    globals,   \* the module-level objects that live from one run to the next
    session,   \* the values of the widgets of the page
    app,       \* the run of the script of app.py: position, resolved input, page
    pipe,      \* the frame of run_rippletruth_pipeline: position and locals
    last,      \* what a client of the pipeline keeps of its previous call
    call,      \* a direct call of one function of the scorers, and its result
    requests   \* the frames of the pipeline calls of a server that run side by side

vars == << globals, session, app, pipe, last, call, requests >>

\* ------------------------------------------------------------------------
\* Fixed-point numbers
\* ------------------------------------------------------------------------
FeatureDen == 2 * 2 * 3 * 5 * 7
ONE == 8000 * FeatureDen
FeatureUnit == ONE \div FeatureDen
RoundUnit == ONE \div 10000

Min(a, b) == IF a <= b THEN a ELSE b
Max(a, b) == IF a >= b THEN a ELSE b
Abs(a) == IF a >= 0 THEN a ELSE 0 - a

\* np.clip(x, lo, hi)
Clip(x, lo, hi) == Max(lo, Min(hi, x))

\* the largest r in lo..hi with r * r <= x
RECURSIVE IsqrtBetween(_, _, _)
IsqrtBetween(x, lo, hi) ==
    IF lo >= hi THEN lo
    ELSE LET mid == (lo + hi + 1) \div 2
         IN  IF mid * mid <= x THEN IsqrtBetween(x, mid, hi)
             ELSE IsqrtBetween(x, lo, mid - 1)

\* floor(sqrt(x)) for 0 <= x < 2^31
Isqrt(x) == IsqrtBetween(x, 0, 46340)

\* round to the nearest multiple of unit, a tie going to the even multiple
RoundTo(x, unit) ==
    LET q == x \div unit
        r == x % unit
    IN  IF 2 * r > unit THEN (q + 1) * unit
        ELSE IF 2 * r < unit THEN q * unit
        ELSE IF q % 2 = 0 THEN q * unit
        ELSE (q + 1) * unit

\* round(x, 4)
Round4(x) == RoundTo(x, RoundUnit)

RECURSIVE SumSeq(_)
SumSeq(s) == IF s = <<>> THEN 0 ELSE Head(s) + SumSeq(Tail(s))

\* ------------------------------------------------------------------------
\* Texts
\* ------------------------------------------------------------------------
Tok(w, d) == [w |-> w, dot |-> d]

\* the tokens a user types into the page in the model
UserTokens ==
    { Tok("must", FALSE), Tok("good", FALSE), Tok("fear", TRUE),
      Tok("attack", FALSE), Tok("tax", TRUE) }

\* the tokens of the texts the extractors are called on directly: these, a
\* calm word, a word without its full stop and a full stop alone
ExtractorTokens ==
    UserTokens \cup { Tok("calm", FALSE), Tok("tax", FALSE), Tok("", TRUE) }

RECURSIVE SeqsUpTo(_, _)
SeqsUpTo(S, n) ==
    IF n = 0 THEN { <<>> }
    ELSE LET shorter == SeqsUpTo(S, n - 1)
         IN  shorter \cup { Append(s, t) : s \in { x \in shorter : Len(x) = n - 1 }, t \in S }

UserTexts == SeqsUpTo(UserTokens, MaxLen)

\* len(token)
TokLen(t) == Len(t.w) + (IF t.dot THEN 1 ELSE 0)

\* len(text.strip()): the tokens and the single blanks between them
StripLen(text) ==
    IF text = <<>> THEN 0
    ELSE SumSeq([i \in 1..Len(text) |-> TokLen(text[i])]) + Len(text) - 1

\* str.lower() of a word; the words of the model are lower case but for these
Lower(w) ==
    CASE w = "[OCR" -> "[ocr"
      [] w = "Please" -> "please"
      [] w = "Text" -> "text"
      [] w = "URL" -> "url"
      [] w = "[URL" -> "[url"
      [] w = "[No" -> "[no"
      [] w = "The" -> "the"
      [] OTHER -> w

\* text.lower().split(): the whitespace-delimited tokens, lower case
SplitTokens(text) == [i \in 1..Len(text) |-> Tok(Lower(text[i].w), text[i].dot)]

\* `kw in w` for a keyword and a lower-case word of the model: but for these
\* pairs, no word of the model contains a keyword it is not equal to
SubstringOf(kw, w) ==
    \/ kw = w
    \/ << kw, w >> \in { << "econom", "economy" >>, << "!", "wow!" >> }

\* `kw in text.lower()` for a keyword without blanks or full stops
InText(kw, text) == \E i \in 1..Len(text) : SubstringOf(kw, Lower(text[i].w))

\* `t in words` for a token t of text.lower().split(): the whole token is the word
TokenIn(t, words) == ~t.dot /\ t.w \in words

\* the real num / den, kept to 1 / FeatureDen
Feature(num, den) == ((num * FeatureDen) \div den) * FeatureUnit

\* ------------------------------------------------------------------------
\* Feature extractors (core/intention_math.py)
\* ------------------------------------------------------------------------
strong_words ==
    { "must", "will", "never", "always", "ordered", "demand", "require",
      "refuse", "announce", "warn", "threaten", "vow", "declare" }

CountTokens(text, words) == Cardinality({ i \in 1..Len(text) : TokenIn(text[i], words) })

\* INTENT STRENGTH, the score * 4.0 returned as it is
_intent_strength_unclipped(text) ==
    LET tokens == SplitTokens(text)
    IN  IF tokens = <<>> THEN 0
        ELSE Feature(4 * CountTokens(tokens, strong_words), Len(tokens))

\* INTENT STRENGTH, the score scaled by 2.0
_intent_strength_scaled_by_two(text) ==
    LET tokens == SplitTokens(text)
    IN  IF tokens = <<>> THEN 0
        ELSE Clip(Feature(2 * CountTokens(tokens, strong_words), Len(tokens)), 0, ONE)

\* INTENT STRENGTH
_intent_strength(text) ==
    LET tokens == SplitTokens(text)
    IN  IF tokens = <<>> THEN 0
        ELSE Clip(Feature(4 * CountTokens(tokens, strong_words), Len(tokens)), 0, ONE)

\* text.split("."): the words before each full stop, and those after the last
RECURSIVE SplitDot(_, _)
SplitDot(text, cur) ==
    IF text = <<>> THEN << cur >>
    ELSE LET t == Head(text)
             now == IF t.w = "" THEN cur ELSE Append(cur, t.w)
         IN  IF t.dot THEN << now >> \o SplitDot(Tail(text), <<>>)
             ELSE SplitDot(Tail(text), now)

\* len(s.strip()) of one piece of text.split(".")
PieceLen(ws) == IF ws = <<>> THEN 0 ELSE SumSeq([i \in 1..Len(ws) |-> Len(ws[i])]) + Len(ws) - 1

\* the words of sklearn's English stop list among the words of the model
english_stop_words ==
    { "must", "on", "this", "please", "or", "no", "found" }

\* the term the default token pattern (two or more word characters) finds in
\* a word, lower case; "" when it finds none
Term(w) ==
    CASE w = "[OCR" -> "ocr"
      [] w = "[URL" -> "url"
      [] w = "[No" -> "no"
      [] w = "error:" -> "error"
      [] w = "refused]" -> "refused"
      [] w = "found]" -> "found"
      [] w \in { "-", "]" } -> ""
      [] OTHER -> Lower(w)

\* the terms of the model in alphabetical order, as
\* TfidfVectorizer.vocabulary_ orders the columns
word_order ==
    << "article", "attack", "calm", "disabled", "error", "extractable",
       "fear", "fetch", "good", "image", "instead", "mode", "ocr", "platform",
       "processing", "refused", "tax", "text", "unavailable", "url", "use" >>

\* _get_vector: the term counts of the sentence in column order; the l2
\* normalisation is applied in CosineSimilarity.  A sentence all of whose
\* words are stop words makes fit_transform raise, and the vector is
\* np.zeros(32).
_get_vector(ws) ==
    LET terms == SelectSeq([i \in 1..Len(ws) |-> Term(ws[i])],
                           LAMBDA w : w # "" /\ w \notin english_stop_words)
        cols == { k \in 1..Len(word_order) : \E i \in 1..Len(terms) : terms[i] = word_order[k] }
        count(k) == Cardinality({ i \in 1..Len(terms) : terms[i] = word_order[k] })
        RECURSIVE build(_)
        build(k) ==
            IF k > Len(word_order) THEN <<>>
            ELSE (IF k \in cols THEN << count(k) >> ELSE <<>>) \o build(k + 1)
    IN  IF terms = <<>> THEN [i \in 1..32 |-> 0] ELSE build(1)

\* cosine_similarity(a, b) of two row vectors of the same length, in units of
\* 1 / FeatureDen; a zero vector has similarity 0
CosineSimilarity(a, b) ==
    LET dot == SumSeq([i \in 1..Len(a) |-> a[i] * b[i]])
        na == SumSeq([i \in 1..Len(a) |-> a[i] * a[i]])
        nb == SumSeq([i \in 1..Len(b) |-> b[i] * b[i]])
    IN  IF na = 0 \/ nb = 0 THEN 0
        ELSE Min(FeatureDen, Isqrt((FeatureDen * FeatureDen * dot * dot) \div (na * nb)))

\* 0.3 in units of 1 / FeatureDen
SimFallback == (3 * FeatureDen) \div 10

\* SEMANTIC STABILITY, 0.3 for a text of fewer than two sentences
_semantic_stability_low_default(text) ==
    LET pieces == SplitDot(text, <<>>)
        sentences == SelectSeq(pieces, LAMBDA ws : PieceLen(ws) > 4)
        vectors == [i \in 1..Len(sentences) |-> _get_vector(sentences[i])]
        sim(i) == IF Len(vectors[i]) # Len(vectors[i + 1]) THEN SimFallback
                  ELSE CosineSimilarity(vectors[i], vectors[i + 1])
        sims == [i \in 1..(Len(vectors) - 1) |-> sim(i)]
    IN  IF Len(sentences) < 2 THEN (3 * ONE) \div 10
        ELSE Clip((SumSeq(sims) \div Len(sims)) * FeatureUnit, 0, ONE)

\* SEMANTIC STABILITY
_semantic_stability(text) ==
    LET pieces == SplitDot(text, <<>>)
        sentences == SelectSeq(pieces, LAMBDA ws : PieceLen(ws) > 4)
        vectors == [i \in 1..Len(sentences) |-> _get_vector(sentences[i])]
        \* cosine_similarity raises on vectors of different lengths: except -> 0.3
        sim(i) == IF Len(vectors[i]) # Len(vectors[i + 1]) THEN SimFallback
                  ELSE CosineSimilarity(vectors[i], vectors[i + 1])
        sims == [i \in 1..(Len(vectors) - 1) |-> sim(i)]
    IN  IF Len(sentences) < 2 THEN ONE \div 2
        ELSE Clip((SumSeq(sims) \div Len(sims)) * FeatureUnit, 0, ONE)

emotion_positive == { "good", "great", "love", "trust", "hope" }
emotion_negative == { "bad", "terrible", "hate", "fear", "danger" }

CountIn(words, text) == Cardinality({ w \in words : InText(w, text) })

\* EMOTIONAL VECTOR
_emotional_vector(text) ==
    LET pos == CountIn(emotion_positive, text)
        neg == CountIn(emotion_negative, text)
        m == Max(1, pos + neg)
    IN  Clip(Feature((pos - neg) + m, 2 * m), 0, ONE)

\* variant: the violent words weigh 2.0
EmoValue_wide(t) ==
    IF TokenIn(t, { "kill", "attack", "threat", "outrage" }) THEN 20
    ELSE IF TokenIn(t, { "calm", "discuss", "consider" }) THEN 1
    ELSE 4

\* the emotional value of one token, in tenths
EmoValue(t) ==
    IF TokenIn(t, { "kill", "attack", "threat", "outrage" }) THEN 10
    ELSE IF TokenIn(t, { "calm", "discuss", "consider" }) THEN 1
    ELSE 4

\* EMOTIONAL VOLATILITY: np.std of the token values
_emotional_volatility(text) ==
    LET tokens == SplitTokens(text)
        n == Len(tokens)
        s1 == SumSeq([i \in 1..n |-> EmoValue(tokens[i])])
        s2 == SumSeq([i \in 1..n |-> EmoValue(tokens[i]) * EmoValue(tokens[i])])
        var == n * s2 - s1 * s1
        unit == FeatureDen \div 10
    IN  IF n < 4 THEN ONE \div 10
        ELSE Clip(Isqrt((unit * unit * var) \div (n * n)) * FeatureUnit, 0, ONE)

\* NARRATIVE HARMONICS
_narrative_harmonics(text) ==
    LET words == SplitTokens(text)
        unique == { words[i] : i \in 1..Len(words) }
    IN  IF words = <<>> THEN 0
        ELSE Clip(Feature(3 * (Len(words) - Cardinality(unique)), Len(words)), 0, ONE)

\* ------------------------------------------------------------------------
\* Intention scorer (core/intention_math.py)
\* ------------------------------------------------------------------------
\* FILS
compute_fils(intent_strength, stability, emotion) ==
    Clip((60 * intent_strength + 25 * stability + 15 * emotion) \div 100, 0, ONE)

\* UCIP
compute_ucip(fils, stability, harmonics) ==
    Clip((50 * fils + 30 * stability + 20 * harmonics) \div 100, 0, ONE)

\* TTCF
compute_ttcf(volatility, lowband) ==
    Clip((70 * volatility + 30 * lowband) \div 100, 0, ONE)

\* DRIFT, the difference of FILS and UCIP taken with its sign
compute_drift_signed(fils, ucip, stability_inverse) ==
    LET drift_raw == (fils - ucip) + stability_inverse
    IN  Clip(drift_raw \div 2, 0, ONE)

\* DRIFT
compute_drift(fils, ucip, stability_inverse) ==
    LET drift_raw == Abs(fils - ucip) + stability_inverse
    IN  Clip(drift_raw \div 2, 0, ONE)

\* RIPPLE SCORE, the weighted sum returned as it is
compute_ripplescore_unclipped(fils, ucip, drift) ==
    (45 * fils + 45 * ucip - 25 * drift) \div 100

\* RIPPLE SCORE, the sign of the drift term on the UCIP term
compute_ripplescore_swapped(fils, ucip, drift) ==
    LET score == 45 * fils - 45 * ucip + 25 * drift
    IN  Clip(score \div 100, 0, ONE)

\* RIPPLE SCORE
compute_ripplescore(fils, ucip, drift) ==
    LET score == 45 * fils + 45 * ucip - 25 * drift
    IN  Clip(score \div 100, 0, ONE)

\* the raw narrative signals of run_intention_math
ExtractFeatures(text) ==
    [ intent_strength |-> _intent_strength(text),
      stability       |-> _semantic_stability(text),
      emotion         |-> _emotional_vector(text),
      volatility      |-> _emotional_volatility(text),
      harmonics       |-> _narrative_harmonics(text) ]

\* the intention math of run_intention_math and its return value: the five
\* metrics rounded to 4 places, the raw signals under "debug"
ApplyIntentionMath(f) ==
    LET fils == compute_fils(f.intent_strength, f.stability, f.emotion)
        ucip == compute_ucip(fils, f.stability, f.harmonics)
        ttcf == compute_ttcf(f.volatility, (f.volatility * 2) \div 10)
        drift == compute_drift(fils, ucip, ONE - ttcf)
        ripplescore == compute_ripplescore(fils, ucip, drift)
    IN  [ FILS        |-> Round4(fils),
          UCIP        |-> Round4(ucip),
          TTCF        |-> Round4(ttcf),
          Drift       |-> Round4(drift),
          RippleScore |-> Round4(ripplescore),
          debug       |-> f ]

run_intention_math(text, narrative) == ApplyIntentionMath(ExtractFeatures(text))

\* ------------------------------------------------------------------------
\* Exact naturals of any size: the digits to the base BigBase, lowest first,
\* no leading zero; and signed numbers over them.  The actor scores are
\* products of five factors and do not fit a machine integer.
\* ------------------------------------------------------------------------
BigBase == 10 * 10 * 10 * 10

RECURSIVE BigOfNat(_)
BigOfNat(n) == IF n = 0 THEN <<>> ELSE << n % BigBase >> \o BigOfNat(n \div BigBase)

RECURSIVE BigMulCarry(_, _, _)
BigMulCarry(a, m, carry) ==
    IF a = <<>> THEN BigOfNat(carry)
    ELSE LET v == Head(a) * m + carry
         IN  << v % BigBase >> \o BigMulCarry(Tail(a), m, v \div BigBase)

\* a * m for a natural m of at most 210000
BigMulNat(a, m) == IF m = 0 THEN <<>> ELSE BigMulCarry(a, m, 0)

RECURSIVE BigAddCarry(_, _, _)
BigAddCarry(a, b, carry) ==
    IF a = <<>> /\ b = <<>> THEN BigOfNat(carry)
    ELSE LET x == IF a = <<>> THEN 0 ELSE Head(a)
             y == IF b = <<>> THEN 0 ELSE Head(b)
             v == x + y + carry
         IN  << v % BigBase >> \o BigAddCarry(IF a = <<>> THEN a ELSE Tail(a),
                                              IF b = <<>> THEN b ELSE Tail(b), v \div BigBase)

BigAdd(a, b) == BigAddCarry(a, b, 0)

RECURSIVE BigLess(_, _)
BigLess(a, b) ==
    IF Len(a) # Len(b) THEN Len(a) < Len(b)
    ELSE IF a = <<>> THEN FALSE
    ELSE LET n == Len(a)
         IN  IF a[n] # b[n] THEN a[n] < b[n]
             ELSE BigLess(SubSeq(a, 1, n - 1), SubSeq(b, 1, n - 1))

RECURSIVE StripZeros(_)
StripZeros(a) ==
    IF a = <<>> THEN a
    ELSE IF a[Len(a)] = 0 THEN StripZeros(SubSeq(a, 1, Len(a) - 1)) ELSE a

RECURSIVE BigSubBorrow(_, _, _)
BigSubBorrow(a, b, borrow) ==
    IF a = <<>> THEN <<>>
    ELSE LET y == IF b = <<>> THEN 0 ELSE Head(b)
             v == Head(a) - y - borrow
         IN  << IF v < 0 THEN v + BigBase ELSE v >>
             \o BigSubBorrow(Tail(a), IF b = <<>> THEN b ELSE Tail(b), IF v < 0 THEN 1 ELSE 0)

\* a - b for a >= b
BigSub(a, b) == StripZeros(BigSubBorrow(a, b, 0))

\* a signed number: its magnitude and whether it is below zero
Signed(neg, mag) == [neg |-> neg /\ mag # <<>>, mag |-> mag]

SignedOfInt(n) == Signed(n < 0, BigOfNat(Abs(n)))

SignedMulInt(x, m) == Signed(x.neg # (m < 0), BigMulNat(x.mag, Abs(m)))

SignedAdd(x, y) ==
    IF x.neg = y.neg THEN Signed(x.neg, BigAdd(x.mag, y.mag))
    ELSE IF BigLess(x.mag, y.mag) THEN Signed(y.neg, BigSub(y.mag, x.mag))
    ELSE Signed(x.neg, BigSub(x.mag, y.mag))

SignedLess(x, y) ==
    IF x.neg # y.neg THEN x.neg
    ELSE IF x.neg THEN BigLess(y.mag, x.mag) ELSE BigLess(x.mag, y.mag)

\* ------------------------------------------------------------------------
\* Python values
\* ------------------------------------------------------------------------
NoneValue == [None |-> TRUE]
EmptyDict == [k \in {} |-> 0]

\* `v is None`, which an empty dict is not
IsNone(v) == v = NoneValue

\* `not v` for a dict or None
Falsy(v) == v = NoneValue \/ DOMAIN v = {}

\* an exception leaving a call
Raised(e) == [raised |-> e]
IsRaised(v) == DOMAIN v = { "raised" }

\* ------------------------------------------------------------------------
\* Traceback scorer (core/traceback_engine.py)
\* ------------------------------------------------------------------------
\* ACTOR_PRIORS.keys(), in the order of the dict
Actors ==
    << "Political Actor", "Media / Journalist", "Citizen / Civilian",
       "Institution / Organization" >>

\* variant: the priors of the political actor and of the media exchanged
InitialPriors_media_first == << 22, 32, 28, 18 >>

\* ACTOR_PRIORS.values() as the module is loaded, in hundredths
InitialPriors == << 32, 22, 28, 18 >>

\* ACTOR_PRIORS.values(): the module-level dict, read at every call
ACTOR_PRIORS == globals.ACTOR_PRIORS

\* the weight vectors of _score_actor, in tenths
intent_wt == << 10, 6, 4, 2 >>
stability_wt == << 9, 10, 6, 8 >>
harmonic_wt == << 10, 12, 3, 8 >>
ripple_wt == << 11, 10, 5, 9 >>

\* variant: the weights of stability and volatility exchanged
_mutation_likelihood_weights_swapped(stability, volatility) ==
    LET mut == (4 * (ONE - stability) + 6 * volatility) \div 10
    IN  Clip(mut, 0, ONE)

\* MUTATION LIKELIHOOD
_mutation_likelihood(stability, volatility) ==
    LET mut == (6 * (ONE - stability) + 4 * volatility) \div 10
    IN  Clip(mut, 0, ONE)

\* variant: coherence and chaos at their full weight
_amplification_pattern_full_weight(ucip, ttcf) ==
    LET amp == ucip - ttcf
    IN  Clip((amp + ONE) \div 2, 0, ONE)

\* AMPLIFICATION PATTERN
_amplification_pattern(ucip, ttcf) ==
    LET amp == (5 * ucip - 5 * ttcf) \div 10
    IN  Clip((amp + ONE) \div 2, 0, ONE)

\* the factor with the weight subtracted: 1 - x * w
ActorFactor_minus(x, w) == 10 * FeatureDen - (x \div FeatureUnit) * w

\* the factor 1 + x * w of _score_actor for a feature x, times 10 * FeatureDen
ActorFactor(x, w) == 10 * FeatureDen + (x \div FeatureUnit) * w

\* the factor 1 + ripplescore * w, times 10 * 10^4
RippleFactor(x, w) == 10 * 10000 + (x \div RoundUnit) * w

\* scores of _score_actor, each times 100 * (10 * FeatureDen)^3 * 10^5
ActorScores(intent_strength, stability, harmonics, ripplescore) ==
    [ i \in 1..Len(Actors) |->
        SignedMulInt(
          SignedMulInt(
            SignedMulInt(
              SignedMulInt(SignedOfInt(ACTOR_PRIORS[i]),
                           ActorFactor(intent_strength, intent_wt[i])),
              ActorFactor(stability, stability_wt[i])),
            ActorFactor(harmonics, harmonic_wt[i])),
          RippleFactor(ripplescore, ripple_wt[i])) ]

RECURSIVE SignedSum(_)
SignedSum(s) == IF s = <<>> THEN SignedOfInt(0) ELSE SignedAdd(Head(s), SignedSum(Tail(s)))

\* Core actor scoring: probs = scores / scores.sum(); a probability is kept
\* as the fraction num / den
_score_actor(intent_strength, stability, harmonics, ripplescore) ==
    LET scores == ActorScores(intent_strength, stability, harmonics, ripplescore)
        total == SignedSum(scores)
    IN  [ a \in { Actors[i] : i \in 1..Len(Actors) } |->
            LET i == CHOOSE k \in 1..Len(Actors) : Actors[k] = a
            IN  [num |-> scores[i], den |-> total] ]

\* p < q for two probabilities over the same denominator
ProbLess(p, q) ==
    IF p.den.neg THEN SignedLess(q.num, p.num) ELSE SignedLess(p.num, q.num)

\* variant: min(actor_probs, key=actor_probs.get)
MaxActor_least(actor_probs) ==
    LET keys == SelectSeq(Actors, LAMBDA a : a \in DOMAIN actor_probs)
        least == CHOOSE i \in 1..Len(keys) :
                   /\ \A j \in 1..Len(keys) : ~ProbLess(actor_probs[keys[j]], actor_probs[keys[i]])
                   /\ \A j \in 1..(i - 1) : ProbLess(actor_probs[keys[i]], actor_probs[keys[j]])
    IN  keys[least]

\* max(actor_probs, key=actor_probs.get): the first key, in dict order, that
\* no other key exceeds
MaxActor(actor_probs) ==
    LET keys == SelectSeq(Actors, LAMBDA a : a \in DOMAIN actor_probs)
        best == CHOOSE i \in 1..Len(keys) :
                  /\ \A j \in 1..Len(keys) : ~ProbLess(actor_probs[keys[i]], actor_probs[keys[j]])
                  /\ \A j \in 1..(i - 1) : ProbLess(actor_probs[keys[j]], actor_probs[keys[i]])
    IN  keys[best]

\* the result of run_traceback when the intention metrics are missing
TracebackSkipped ==
    [ actor_probabilities   |-> EmptyDict,
      amplification_pattern |-> 0,
      mutation_likelihood   |-> 0,
      RippleTruthIndex      |-> 0,
      interpretation        |-> [ said |-> "Intention signals missing - traceback skipped." ] ]

\* the keys run_traceback reads of intention, and of intention["debug"]
IntentionKeys == { "debug", "FILS", "UCIP", "TTCF", "Drift", "RippleScore" }
DebugKeys == { "intent_strength", "stability", "emotion", "volatility", "harmonics" }

\* the index clipped to the whole scale 0..100
rti_full_scale(stability, ucip, ttcf, ripplescore, drift) ==
    Clip(35 * stability + 25 * ucip + 15 * (ONE - ttcf) + 15 * ripplescore
         + 10 * (ONE - drift), 0, 100 * ONE)

\* RippleTruth Index: np.clip(rti * 100, 1, 99)
rti(stability, ucip, ttcf, ripplescore, drift) ==
    Clip(35 * stability + 25 * ucip + 15 * (ONE - ttcf) + 15 * ripplescore
         + 10 * (ONE - drift), 1 * ONE, 99 * ONE)

\* Traceback engine.  The index is in points: RippleTruthIndex * ONE.
run_traceback(text, narrative, intention) ==
    IF Falsy(intention) THEN TracebackSkipped
    ELSE IF ~(IntentionKeys \subseteq DOMAIN intention) THEN Raised("KeyError")
    ELSE IF ~(DebugKeys \subseteq DOMAIN intention.debug) THEN Raised("KeyError")
    ELSE
    LET ils == intention.debug
        stability == ils.stability
        volatility == ils.volatility
        ucip == intention.UCIP
        ttcf == intention.TTCF
        drift == intention.Drift
        ripplescore == intention.RippleScore
        actor_probs == _score_actor(ils.intent_strength, stability, ils.harmonics, ripplescore)
        mutation == _mutation_likelihood(stability, volatility)
        amplification == _amplification_pattern(ucip, ttcf)
        index == rti(stability, ucip, ttcf, ripplescore, drift)
        dominant_actor == MaxActor(actor_probs)
    IN  [ actor_probabilities   |-> actor_probs,
          amplification_pattern |-> amplification,
          mutation_likelihood   |-> mutation,
          RippleTruthIndex      |-> index,
          interpretation        |->
              [ said          |-> "A narrative originating from",
                actor         |-> dominant_actor,
                amplification |-> IF amplification < (45 * ONE) \div 100 THEN "Low" ELSE "High",
                mutation      |-> RoundTo(mutation, ONE \div 100),
                rti           |-> RoundTo(index, ONE \div 10) ] ]

\* ------------------------------------------------------------------------
\* Narrative classifier (core/narrative_classifier.py)
\* ------------------------------------------------------------------------
\* any(k in text for k in words)
AnyIn(words, text) == \E k \in words : InText(k, text)

\* `"a b" in text` for a phrase of two words: a token that is a, without a
\* full stop, followed by a token that is b
PhraseIn(a, b, text) ==
    \E i \in 1..(Len(text) - 1) :
        /\ Lower(text[i].w) = a /\ ~text[i].dot
        /\ Lower(text[i + 1].w) = b

\* `"!" in text`: no word of the model holds an exclamation mark
BangIn(text) == \E i \in 1..Len(text) : SubstringOf("!", Lower(text[i].w))

\* TOPIC DETECTION, the Economy rule tested before the Immigration rule
detect_topic_economy_first(text) ==
    IF AnyIn({ "economy", "inflation", "jobs", "market" }, text) THEN "Economy"
    ELSE IF AnyIn({ "immigration", "border", "migrant" }, text) THEN "Immigration"
    ELSE IF AnyIn({ "election", "vote", "campaign", "ballot" }, text) THEN "Elections"
    ELSE IF AnyIn({ "crime", "violence", "police" }, text) THEN "Crime"
    ELSE IF AnyIn({ "war", "military", "strike", "attack" }, text) THEN "Foreign Policy"
    ELSE "General"

detect_topic(text) ==
    IF AnyIn({ "immigration", "border", "migrant" }, text) THEN "Immigration"
    ELSE IF AnyIn({ "economy", "inflation", "jobs", "market" }, text) THEN "Economy"
    ELSE IF AnyIn({ "election", "vote", "campaign", "ballot" }, text) THEN "Elections"
    ELSE IF AnyIn({ "crime", "violence", "police" }, text) THEN "Crime"
    ELSE IF AnyIn({ "war", "military", "strike", "attack" }, text) THEN "Foreign Policy"
    ELSE "General"

\* POLARITY DETECTION, a tie of the two counts taken as Positive
detect_polarity_tie_positive(text) ==
    LET pos == CountIn({ "good", "hope", "success", "progress", "peace" }, text)
        neg == CountIn({ "bad", "fear", "danger", "threat", "corrupt", "fraud" }, text)
    IN  IF pos >= neg THEN "Positive"
        ELSE "Negative"

detect_polarity(text) ==
    LET pos == CountIn({ "good", "hope", "success", "progress", "peace" }, text)
        neg == CountIn({ "bad", "fear", "danger", "threat", "corrupt", "fraud" }, text)
    IN  IF pos > neg THEN "Positive"
        ELSE IF neg > pos THEN "Negative"
        ELSE "Neutral"

detect_emotional_tone(text) ==
    IF AnyIn({ "panic", "fear", "urgent", "chaos", "anger" }, text) THEN "High Emotional Load"
    ELSE IF AnyIn({ "concern", "worry", "uncertain" }, text) THEN "Moderate Emotional Load"
    ELSE "Low Emotional Load"

detect_structure(text) ==
    IF InText("because", text) \/ PhraseIn("due", "to", text) THEN "Claim with Reason"
    ELSE IF InText("therefore", text) \/ InText("thus", text) THEN "Argument / Conclusion"
    ELSE IF InText("report", text) \/ PhraseIn("sources", "say", text) THEN "Reported Information"
    ELSE IF BangIn(text) THEN "Emphatic / Emotional Statement"
    ELSE "General Statement"

analyze_narrative(text) ==
    [ topic     |-> detect_topic(text),
      polarity  |-> detect_polarity(text),
      tone      |-> detect_emotional_tone(text),
      structure |-> detect_structure(text) ]

\* ------------------------------------------------------------------------
\* Fact-Stack engine (core/narrative_engine/fact_stack.py)
\* ------------------------------------------------------------------------
\* re.split(r'(?<=[.!?])\s+', text): the runs of tokens, each ending at a
\* token with a full stop
RECURSIVE SplitSentences(_, _)
SplitSentences(text, cur) ==
    IF text = <<>> THEN (IF cur = <<>> THEN <<>> ELSE << cur >>)
    ELSE LET now == Append(cur, Head(text))
         IN  IF Head(text).dot THEN << now >> \o SplitSentences(Tail(text), <<>>)
             ELSE SplitSentences(Tail(text), now)

claim_verbs ==
    { "is", "are", "was", "were", "has", "have", "had", "will", "did", "does",
      "said", "claim", "claims" }

extract_claims(text) ==
    SelectSeq(SplitSentences(text, <<>>),
              LAMBDA st : /\ Len(st) >= 5
                          /\ ~InText("?", st)
                          /\ \E i \in 1..Len(st) : Term(st[i].w) \in claim_verbs)

normalize_claims(claims) == [i \in 1..Len(claims) |-> SplitTokens(claims[i])]

\* the (neg, pos) pairs of detect_contradictions with `neg in a`, one entry a pair
NegIn(k, a) ==
    CASE k = 1 -> PhraseIn("did", "not", a)
      [] k = 2 -> PhraseIn("was", "not", a)
      [] k = 3 -> PhraseIn("were", "not", a)
      [] k = 4 -> InText("false", a)
      [] k = 5 -> InText("never", a)
      [] OTHER -> InText("none", a)

opposite_pos == << "did", "was", "were", "true", "always", "all" >>

RECURSIVE FlattenSeq(_)
FlattenSeq(ss) == IF ss = <<>> THEN <<>> ELSE Head(ss) \o FlattenSeq(Tail(ss))

detect_contradictions(claims) ==
    LET n == Len(claims)
        hits(i, j) ==
            IF claims[i] = claims[j] THEN <<>>
            ELSE LET ks == SelectSeq(<< 1, 2, 3, 4, 5, 6 >>,
                                     LAMBDA k : NegIn(k, claims[i]) /\ InText(opposite_pos[k], claims[j]))
                 IN  [x \in 1..Len(ks) |-> [a |-> claims[i], b |-> claims[j]]]
    IN  FlattenSeq([i \in 1..n |-> FlattenSeq([j \in 1..n |-> hits(i, j)])])

detect_exaggeration(claims) ==
    SelectSeq(claims,
              LAMBDA c : \/ AnyIn({ "everyone", "always", "never", "completely", "entirely",
                                    "absolutely", "proven", "undeniable", "irrefutable" }, c)
                         \/ PhraseIn("no", "one", c))

\* the stability score, in points (0..100)
compute_stability(claims, contradictions, exaggerations) ==
    IF claims = <<>> THEN 50
    ELSE Max(0, Min(100, 90 - 12 * Len(contradictions) - 5 * Len(exaggerations)))

FactStackEngine_analyze(text) ==
    LET normalized == normalize_claims(extract_claims(text))
        contradictions == detect_contradictions(normalized)
        exaggerations == detect_exaggeration(normalized)
    IN  [ claims          |-> normalized,
          contradictions  |-> contradictions,
          exaggerations   |-> exaggerations,
          stability_score |-> compute_stability(normalized, contradictions, exaggerations) ]

build_fact_stack(text) ==
    LET result == FactStackEngine_analyze(text)
    IN  [i \in 1..Len(result.claims) |-> [line |-> "Claim", of |-> result.claims[i]]]
        \o [i \in 1..Len(result.contradictions) |->
              [line |-> "Contradiction", of |-> result.contradictions[i]]]
        \o [i \in 1..Len(result.exaggerations) |->
              [line |-> "Exaggeration", of |-> result.exaggerations[i]]]
        \o << [line |-> "Stability Score", of |-> result.stability_score] >>

\* ------------------------------------------------------------------------
\* Psi-Quant (core/narrative_engine/psi_quant.py)
\* ------------------------------------------------------------------------
\* _tokenize: re.findall(r"\b\w+\b", text.lower()); every word of the model
\* with a word character has two or more, so these are its terms
psi_tokenize(text) ==
    SelectSeq([i \in 1..Len(text) |-> Term(text[i].w)], LAMBDA w : w # "")

CountWords(ws, words) == Cardinality({ i \in 1..Len(ws) : ws[i] \in words })

psi_emotionality(text) ==
    LET tokens == psi_tokenize(text)
        count == CountWords(tokens,
                   { "outrage", "corrupt", "evil", "lie", "destroy", "fraud", "attack",
                     "stolen", "hate", "traitor", "fight", "chaos", "collapse", "disaster" })
    IN  IF Len(tokens) <= 20 THEN Min(ONE, count * ONE)
        ELSE Min(ONE, Feature(20 * count, Len(tokens)))

psi_assertion_level(text) ==
    LET tokens == psi_tokenize(text)
        strong == CountWords(tokens, { "will", "must", "cannot", "always", "never" })
        weak == CountWords(tokens, { "might", "could", "possibly", "perhaps" })
    IN  Max(0, Min(ONE, Feature(2 * strong - weak + 6, 12)))

\* the word counts of the non-empty pieces of re.split(r"[.!?]", text)
FragmentLengths(text) ==
    LET pieces == SelectSeq(SplitDot(text, <<>>), LAMBDA ws : ws # <<>>)
    IN  [i \in 1..Len(pieces) |-> Len(pieces[i])]

\* n * sum(x^2) - sum(x)^2 of a list of lengths
Spread(lengths) ==
    Len(lengths) * SumSeq([i \in 1..Len(lengths) |-> lengths[i] * lengths[i]])
    - SumSeq(lengths) * SumSeq(lengths)

\* stdev / max(1, mean); a non-empty piece has a word, so the mean is >= 1
psi_linguistic_chaos(text) ==
    LET lengths == FragmentLengths(text)
        n == Len(lengths)
        total == SumSeq(lengths)
        sq == (FeatureDen * FeatureDen * n * Spread(lengths)) \div ((n - 1) * total * total)
    IN  IF n < 2 THEN ONE \div 10
        ELSE Max(0, Min(ONE, Isqrt(Min(sq, FeatureDen * FeatureDen)) * FeatureUnit))

\* text.lower().count(term), summed over the directional terms
psi_intent_strength(text) ==
    LET terms == { "should", "must", "urge", "demand", "insist", "push", "drive", "force" }
        phrases(a, b) == Cardinality({ i \in 1..(Len(text) - 1) :
                            /\ Lower(text[i].w) = a /\ ~text[i].dot
                            /\ Lower(text[i + 1].w) = b })
        count == Cardinality({ <<i, term>> \in (1..Len(text)) \X terms :
                                 SubstringOf(term, Lower(text[i].w)) })
                 + phrases("need", "to") + phrases("call", "for")
    IN  Min(ONE, Feature(count, 5))

\* 1 / (1 + sqrt(variance of the sentence lengths))
psi_coherence(text) ==
    LET lengths == FragmentLengths(text)
        n == Len(lengths)
        root == Isqrt((FeatureDen * FeatureDen * Spread(lengths)) \div (n * (n - 1)))
    IN  IF n < 2 THEN ONE \div 2
        ELSE Max(0, Min(ONE, ((FeatureDen * FeatureDen) \div (FeatureDen + root)) * FeatureUnit))

\* PsiQuant.compute; psi_score is in points (0..100) times ONE, rounded to 2 places
PsiQuant_compute(text) ==
    LET emotionality == psi_emotionality(text)
        assertion == psi_assertion_level(text)
        volatility == psi_linguistic_chaos(text)
        intent_strength == psi_intent_strength(text)
        coherence == psi_coherence(text)
        psi_score == 22 * emotionality + 20 * assertion + 18 * volatility
                     + 20 * intent_strength + 20 * coherence
    IN  [ psi_score       |-> RoundTo(psi_score, ONE \div 100),
          force_vector    |-> [ emotionality |-> emotionality, assertion_level |-> assertion,
                                volatility |-> volatility, intent_strength |-> intent_strength,
                                coherence |-> coherence ],
          chaos_factor    |-> volatility,
          emotionality    |-> emotionality,
          assertion       |-> assertion,
          intent_strength |-> intent_strength,
          coherence       |-> coherence ]

\* the pipeline wrapper returns the score alone
compute_psiquant(text) == PsiQuant_compute(text).psi_score

\* ------------------------------------------------------------------------
\* Narrative engine (core/narrative_engine/)
\* ------------------------------------------------------------------------
get_narrative_tier(narrative) == "tier-unknown"

score_world_corpus(text) ==
    [ similarity_score       |-> 0,
      geopolitical_alignment |-> "unknown",
      information_density    |-> 0,
      realism_index          |-> 0,
      notes                  |-> "World corpus module not yet implemented." ]

\* variant: what PsiQuant.compute returns is handed on under the key the
\* interpretation reads
NarrativeEngine_analyze_psi_quant(text, math_results, narrative_type) ==
    [ tier             |-> get_narrative_tier(text),
      fact_stack       |-> build_fact_stack(text),
      psi_quant        |-> PsiQuant_compute(text),
      psiquant         |-> compute_psiquant(text),
      corpus_alignment |-> score_world_corpus(text),
      openai_summary   |-> NoneValue,
      use_openai       |-> FALSE ]

\* NarrativeEngine().analyze: use_openai is False, so no model is called
NarrativeEngine_analyze(text, math_results, narrative_type) ==
    [ tier             |-> get_narrative_tier(text),
      fact_stack       |-> build_fact_stack(text),
      psiquant         |-> compute_psiquant(text),
      corpus_alignment |-> score_world_corpus(text),
      openai_summary   |-> NoneValue,
      use_openai       |-> FALSE ]

\* ------------------------------------------------------------------------
\* Interpretation composer (core/interpretation_engine.py)
\* ------------------------------------------------------------------------
\* dict.get(key, default)
DictGet(d, key, default) == IF key \in DOMAIN d THEN d[key] ELSE default

\* x > n / 100 for a number x at scale ONE
Above(x, hundredths) == 100 * x > hundredths * ONE

\* str.lower() of a label of the classifier
LowerLabel(l) ==
    CASE l = "Immigration" -> "immigration"
      [] l = "Economy" -> "economy"
      [] l = "Elections" -> "elections"
      [] l = "Crime" -> "crime"
      [] l = "Foreign Policy" -> "foreign policy"
      [] l = "General" -> "general"
      [] l = "Positive" -> "positive"
      [] l = "Negative" -> "negative"
      [] l = "Neutral" -> "neutral"
      [] l = "High Emotional Load" -> "high emotional load"
      [] l = "Moderate Emotional Load" -> "moderate emotional load"
      [] l = "Low Emotional Load" -> "low emotional load"
      [] l = "Claim with Reason" -> "claim with reason"
      [] l = "Argument / Conclusion" -> "argument / conclusion"
      [] l = "Reported Information" -> "reported information"
      [] l = "Emphatic / Emotional Statement" -> "emphatic / emotional statement"
      [] l = "General Statement" -> "general statement"
      [] OTHER -> l

\* the three-part text of the v1 interpreter: a string, kept as its parts
_generate_legacy_interpretation(narrative, intention, traceback) ==
    LET FILS == intention.FILS
        UCIP == intention.UCIP
        TTCF == intention.TTCF
        Drift == intention.Drift
        RippleScore == intention.RippleScore
        actor_probs == DictGet(traceback, "actor_probabilities", EmptyDict)
        top_actor == IF DOMAIN actor_probs # {} THEN MaxActor(actor_probs) ELSE "Unknown"
        amp == traceback.amplification_pattern
        mut == traceback.mutation_likelihood
        index == traceback.RippleTruthIndex
    IN  [ str |-> TRUE,
          narrative_summary |->
            [ topic     |-> LowerLabel(narrative.topic),
              polarity  |-> LowerLabel(narrative.polarity),
              tone      |-> LowerLabel(narrative.tone),
              structure |-> LowerLabel(narrative.structure) ],
          intention_summary |->
            [ fils_desc  |-> IF Above(FILS, 65) THEN "strong emotional propulsion"
                             ELSE IF Above(FILS, 40) THEN "moderate emotional activation"
                             ELSE "low emotional propulsion",
              ucip_desc  |-> IF Above(UCIP, 55) THEN "high internal coherence"
                             ELSE IF Above(UCIP, 30) THEN "moderate coherence"
                             ELSE "low coherence",
              ttc_desc   |-> IF Above(TTCF, 50) THEN "high chaos/distortion"
                             ELSE IF Above(TTCF, 25) THEN "moderate chaos"
                             ELSE "low chaos",
              drift_desc |-> IF Above(Drift, 40) THEN "large intention drift"
                             ELSE IF Above(Drift, 20) THEN "moderate drift"
                             ELSE "minimal drift",
              rs_desc    |-> IF Above(RippleScore, 60) THEN "a strong RippleScore"
                             ELSE IF Above(RippleScore, 35) THEN "a moderate RippleScore"
                             ELSE "a weak RippleScore" ],
          traceback_summary |->
            [ top_actor |-> top_actor,
              amp_desc  |-> IF Above(amp, 55) THEN "high amplification potential"
                            ELSE IF Above(amp, 30) THEN "moderate amplification"
                            ELSE "low amplification",
              mut_desc  |-> IF Above(mut, 55) THEN "high mutation likelihood"
                            ELSE IF Above(mut, 30) THEN "moderate mutation"
                            ELSE "low mutation likelihood",
              rti       |-> RoundTo(index, ONE \div 10) ] ]

\* psi_score >= n for a score in points times ONE
force_label_of(psi_score) ==
    IF psi_score >= 70 * ONE THEN "HIGH"
    ELSE IF psi_score >= 40 * ONE THEN "MODERATE"
    ELSE "LOW"

generate_interpretation(narrative, intention, traceback, narrative_engine_output) ==
    IF narrative_engine_output = NoneValue
    THEN _generate_legacy_interpretation(narrative, intention, traceback)
    ELSE
    LET psi == DictGet(narrative_engine_output, "psi_quant", EmptyDict)
        psi_score == DictGet(psi, "psi_score", 0)
        emotionality == DictGet(psi, "emotionality", 0)
        chaos_factor == DictGet(psi, "chaos_factor", 0)
        coherence == DictGet(psi, "coherence", 0)
        intent_strength == DictGet(psi, "intent_strength", 0)
        force_label == force_label_of(psi_score)
        legacy_block == _generate_legacy_interpretation(narrative, intention, traceback)
        psi_block ==
            [ force_label       |-> force_label,
              psi_score         |-> psi_score,
              emotionality_note |-> IF Above(emotionality, 35) THEN "strong emotional propulsion"
                                    ELSE IF Above(emotionality, 15) THEN "moderate emotional coloring"
                                    ELSE "minimal emotional coloration",
              chaos_note        |-> IF Above(chaos_factor, 35) THEN "high linguistic volatility"
                                    ELSE IF Above(chaos_factor, 15) THEN "moderate variability"
                                    ELSE "stable linguistic structure",
              coherence_note    |-> IF Above(coherence, 65) THEN "high structural coherence"
                                    ELSE IF Above(coherence, 35) THEN "mixed coherence"
                                    ELSE "fragmented or uneven structure",
              intent_note       |-> IF Above(intent_strength, 35) THEN "strong directive pressure"
                                    ELSE IF Above(intent_strength, 10) THEN "mild directive cues"
                                    ELSE "little directive signaling" ]
    IN  [ summary                        |-> force_label,
          legacy_interpretation          |-> legacy_block,
          psi_quant_analysis             |-> psi_block,
          psi_quant_score                |-> psi_score,
          force_label                    |-> force_label,
          psi_details                    |-> [ emotionality |-> emotionality,
                                               chaos_factor |-> chaos_factor,
                                               coherence |-> coherence,
                                               intent_strength |-> intent_strength ],
          fused_interpretation_paragraph |-> << legacy_block, psi_block >> ]

\* isinstance(v, str) for a value the composer returns
IsStr(v) == "str" \in DOMAIN v

\* ------------------------------------------------------------------------
\* Markdown report (utils/report_templates.py)
\* ------------------------------------------------------------------------
\* a string made by a renderer, kept as its parts
Str(parts) == [ str |-> TRUE, parts |-> parts ]

\* Safe section formatter: a dict or list is dumped as json, anything else is
\* str(body)
_fmt_section(title, body) ==
    [ title |-> title,
      body  |-> IF IsStr(body) THEN body ELSE [ json |-> body ] ]

_render_narrative_block(narrative) ==
    Str([ Topic     |-> DictGet(narrative, "topic", "Unknown"),
          Polarity  |-> DictGet(narrative, "polarity", "Unknown"),
          Tone      |-> DictGet(narrative, "tone", "Unknown"),
          Structure |-> DictGet(narrative, "structure", "Unknown") ])

_render_intention_block(intention) ==
    LET PSI == DictGet(intention, "PsiQuant", NoneValue)
        block == [ FILS        |-> DictGet(intention, "FILS", NoneValue),
                   UCIP        |-> DictGet(intention, "UCIP", NoneValue),
                   TTCF        |-> DictGet(intention, "TTCF", NoneValue),
                   Drift       |-> DictGet(intention, "Drift", NoneValue),
                   RippleScore |-> DictGet(intention, "RippleScore", NoneValue) ]
    IN  Str(IF PSI # NoneValue THEN << block, [ PsiQuantScore |-> PSI ] >> ELSE << block >>)

\* round(v * 100, 1) of a probability num / den, in tenths of a percent:
\* the largest k in lo..hi with 2 * k * den <= 2000 * num + den
RECURSIVE PercentBetween(_, _, _)
PercentBetween(p, lo, hi) ==
    IF lo >= hi THEN lo
    ELSE LET mid == (lo + hi + 1) \div 2
         IN  IF BigLess(BigAdd(BigMulNat(p.num.mag, 2000), p.den.mag),
                        BigMulNat(p.den.mag, 2 * mid))
             THEN PercentBetween(p, lo, mid - 1)
             ELSE PercentBetween(p, mid, hi)

PercentTenths(p) == PercentBetween(p, 0, 1000)

_render_traceback_block(trace) ==
    LET actors == DictGet(trace, "actor_probabilities", EmptyDict)
        keys == SelectSeq(Actors, LAMBDA a : a \in DOMAIN actors)
    IN  Str([ actors_md |-> IF DOMAIN actors # {}
                            THEN [ i \in 1..Len(keys) |->
                                     [ actor |-> keys[i], percent |-> PercentTenths(actors[keys[i]]) ] ]
                            ELSE << [ said |-> "_No actor data available_" ] >>,
              amp |-> DictGet(trace, "amplification_pattern", 0),
              mut |-> DictGet(trace, "mutation_likelihood", 0),
              rti |-> RoundTo(DictGet(trace, "RippleTruthIndex", 0), ONE \div 10) ])

\* the Fact-Stack result has no "facts", "fact_density" or "reliability_score"
_render_fact_stack_block(fact_stack) ==
    IF Falsy(fact_stack) THEN Str(<< "_No Fact-Stack analysis performed._" >>)
    ELSE Str([ facts       |-> DictGet(fact_stack, "facts", <<>>),
               density     |-> DictGet(fact_stack, "fact_density", NoneValue),
               reliability |-> DictGet(fact_stack, "reliability_score", NoneValue) ])

_render_narrative_engine_block(ne) ==
    IF Falsy(ne) THEN Str(<< "_Narrative engine not invoked._" >>)
    ELSE Str([ tier       |-> DictGet(ne, "tier", NoneValue),
               analysis   |-> DictGet(ne, "analysis", NoneValue),
               use_openai |-> DictGet(ne, "use_openai", NoneValue) ])

\* MASTER BUILDER that leaves out the layer of an upstream result that is
\* missing or empty
build_markdown_report_omitting(narrative, intention, traceback, interpretation, narrative_engine, fact_stack) ==
    << _fmt_section("Narrative Analysis", _render_narrative_block(narrative)),
       _fmt_section("Intention Metrics", _render_intention_block(intention)) >>
    \o (IF Falsy(fact_stack) THEN <<>>
        ELSE << _fmt_section("Fact Stack", _render_fact_stack_block(fact_stack)) >>)
    \o (IF Falsy(narrative_engine) THEN <<>>
        ELSE << _fmt_section("Narrative Engine (Fusion)", _render_narrative_engine_block(narrative_engine)) >>)
    \o << _fmt_section("Traceback Modeling", _render_traceback_block(traceback)),
          _fmt_section("Interpretation", interpretation) >>

\* MASTER BUILDER with the Interpretation layer put before the Traceback layer
build_markdown_report_interpretation_first(narrative, intention, traceback, interpretation, narrative_engine, fact_stack) ==
    << _fmt_section("Narrative Analysis", _render_narrative_block(narrative)),
       _fmt_section("Intention Metrics", _render_intention_block(intention)),
       _fmt_section("Fact Stack", _render_fact_stack_block(fact_stack)),
       _fmt_section("Narrative Engine (Fusion)", _render_narrative_engine_block(narrative_engine)),
       _fmt_section("Interpretation", interpretation),
       _fmt_section("Traceback Modeling", _render_traceback_block(traceback)) >>

\* MASTER BUILDER: the sections of the report, in order
build_markdown_report(narrative, intention, traceback, interpretation, narrative_engine, fact_stack) ==
    << _fmt_section("Narrative Analysis", _render_narrative_block(narrative)),
       _fmt_section("Intention Metrics", _render_intention_block(intention)) >>
    \o (IF DictGet(intention, "PsiQuant", NoneValue) # NoneValue
        THEN << _fmt_section("PsiQuant Scoring", Str(<< intention.PsiQuant >>)) >>
        ELSE <<>>)
    \o << _fmt_section("Fact Stack", _render_fact_stack_block(fact_stack)),
          _fmt_section("Narrative Engine (Fusion)", _render_narrative_engine_block(narrative_engine)),
          _fmt_section("Traceback Modeling", _render_traceback_block(traceback)),
          _fmt_section("Interpretation", interpretation) >>

\* ------------------------------------------------------------------------
\* Human narrative layer (core/human_narrative_layer.py)
\* ------------------------------------------------------------------------
\* x < n / 100 for a number x at scale ONE
Below(x, hundredths) == 100 * x < hundredths * ONE

human_narrative_summary(text, metrics) ==
    LET fils == DictGet(metrics, "FILS", 0)
        ucip == DictGet(metrics, "UCIP", 0)
        ttcf == DictGet(metrics, "TTCF", 0)
        drift == DictGet(metrics, "Drift", 0)
        score == DictGet(metrics, "RippleScore", 0)
    IN  Str([ topic     |-> IF InText("immigra", text) THEN "immigration"
                            ELSE IF InText("econom", text) THEN "economy"
                            ELSE IF InText("border", text) THEN "border policy"
                            ELSE IF InText("crime", text) THEN "crime / safety"
                            ELSE "general",
              polarity  |-> IF AnyIn({ "bad", "terrible", "fail", "danger" }, text) THEN "negative"
                            ELSE IF AnyIn({ "good", "great", "success" }, text) THEN "positive"
                            ELSE "neutral",
              tone      |-> IF AnyIn({ "angry", "outrage", "furious" }, text) THEN "high emotional load"
                            ELSE IF AnyIn({ "concern", "worried" }, text) THEN "moderate emotional load"
                            ELSE "low emotional load",
              structure |-> IF AnyIn({ "must", "should", "demand" }, text) THEN "call to action"
                            ELSE "general statement",
              who       |-> IF Below(score, 15) THEN "private individual"
                            ELSE IF Below(score, 35) THEN "commentary-style messaging"
                            ELSE IF Below(score, 65) THEN "advocacy groups"
                            ELSE "coordinated political operations",
              what      |-> IF Below(fils, 25) THEN "sets context"
                            ELSE IF Below(fils, 50) THEN "shapes perception"
                            ELSE "directs the audience",
              where     |-> IF Below(drift, 20) THEN "early in the narrative cycle"
                            ELSE IF Below(drift, 45) THEN "middle phase"
                            ELSE "volatile narrative region",
              when      |-> IF Below(ttcf, 15) THEN "low urgency"
                            ELSE IF Below(ttcf, 35) THEN "moderate urgency"
                            ELSE "high urgency",
              why       |-> IF Below(score, 20) THEN "limited persuasive force"
                            ELSE IF Below(score, 45) THEN "topic priming"
                            ELSE IF Below(score, 70) THEN "shaping beliefs"
                            ELSE "strong persuasive force",
              ucip      |-> RoundTo(ucip, ONE \div 100),
              drift     |-> RoundTo(drift, ONE \div 100),
              score     |-> RoundTo(score, ONE \div 100) ])

\* ------------------------------------------------------------------------
\* What the network and the OCR fallback hand back
\* ------------------------------------------------------------------------
Words(ws) == [i \in 1..Len(ws) |-> Tok(ws[i], FALSE)]

\* an article of more than 60 characters, as a page can hold
ArticleText ==
    << Tok("attack", FALSE), Tok("attack", FALSE), Tok("must", FALSE), Tok("fear", TRUE),
       Tok("good", FALSE), Tok("tax", TRUE), Tok("calm", FALSE), Tok("tax", TRUE),
       Tok("must", FALSE), Tok("good", FALSE), Tok("attack", FALSE), Tok("tax", TRUE) >>

\* extract_text_from_image: the one string it returns.  The dash stands for
\* the em dash; the closing bracket is kept as a token of its own, which no
\* stage's result on this text depends on.
OcrUnavailable ==
    Words(<< "[OCR", "unavailable", "on", "this", "platform", "-", "image", "processing" >>)
    \o << Tok("disabled", TRUE) >>
    \o Words(<< "Please", "use", "Text", "or", "URL", "mode" >>)
    \o << Tok("instead", TRUE), Tok("]", FALSE) >>

extract_text_from_image(image_file) == OcrUnavailable

\* fetch_url_text: f"[URL fetch error: {e}]" for an exception that says
\* "refused", and the string for a page without paragraphs
UrlFetchError == Words(<< "[URL", "fetch", "error:", "refused]" >>)
NoExtractableText == Words(<< "[No", "extractable", "article", "text", "found]" >>)

\* what fetch_url_text(url) can return
FetchOutcomes == { UrlFetchError, NoExtractableText, ArticleText }

\* load_url_text: the heading line of each failure string (the advice that
\* follows it holds no "Error" and no bracket), for an exception that says
\* "refused" and a server status of 503
LoadFailures ==
    { Words(<< "[403", "Forbidden", "-", "Request", "Blocked]" >>),
      Words(<< "[404", "Not", "Found]" >>),
      Words(<< "[429", "Rate", "Limited]" >>),
      Words(<< "[Server", "Error", "-", "503]" >>),
      Words(<< "[Connection", "Timeout]" >>),
      Words(<< "[SSL", "Error]" >>),
      Words(<< "[Unexpected", "URL", "Error:", "refused]" >>),
      Words(<< "[Blocked", "by", "Paywall", "/", "JS", "Renderer]" >>),
      Words(<< "[Readable", "Text", "Not", "Found]" >>),
      Words(<< "[HTML", "Parsing", "Error:", "refused]" >>) }

\* what load_url_text(url) can return
LoadOutcomes == LoadFailures \cup { ArticleText }

\* extract_clean_article: its two failure strings
CouldNotRetrieve == Words(<< "[Error:", "Could", "not", "retrieve", "URL]" >>)
NoReadableArticle == Words(<< "[No", "readable", "article", "text", "found]" >>)

\* what extract_clean_article(url) can return
CleanOutcomes == { CouldNotRetrieve, NoReadableArticle, ArticleText }

\* every failure string of the three readers the resolver and the pipeline use
FailureStrings == LoadFailures \cup { UrlFetchError, NoExtractableText, OcrUnavailable }

\* the words of the model that start with a prefix
WordsStarting(p) ==
    CASE p = "[" -> { "[OCR", "[URL", "[No", "[Error:", "[403", "[404", "[429", "[Server",
                      "[Connection", "[SSL", "[Unexpected", "[Blocked", "[Readable", "[HTML" }
      [] p = "[Error" -> { "[Error:" }
      [] p = "Error" -> { "Error", "Error:", "Error]" }
      [] OTHER -> { p }

\* text.startswith(prefix), the prefix given word by word
StartsWith(text, prefix) ==
    LET n == Len(prefix)
    IN  /\ Len(text) >= n
        /\ \A i \in 1..(n - 1) : text[i].w = prefix[i] /\ ~text[i].dot
        /\ text[n].w \in WordsStarting(prefix[n])

\* `"Error" in text`
HoldsError(text) ==
    \E i \in 1..Len(text) : text[i].w \in { "Error", "Error:", "Error]", "[Error:" }

\* ------------------------------------------------------------------------
\* Input resolver (utils/input_resolver.py)
\* ------------------------------------------------------------------------
\* variant: with nothing provided the resolver reports an (empty) text source
resolve_input_empty_as_text(text_input, url_input, image_upload, loaded) ==
    IF text_input # <<>> \/ (url_input = <<>> /\ ~image_upload)
    THEN [ text |-> text_input, source_type |-> "text", warnings |-> <<>> ]
    ELSE IF url_input # <<>>
    THEN [ text |-> loaded, source_type |-> "url", warnings |-> <<>> ]
    ELSE [ text |-> extract_text_from_image(image_upload), source_type |-> "image",
           warnings |-> <<>> ]

\* text_input and url_input are strings (the empty one stands for None as
\* well: the resolver tests their truth only), image_upload is whether a file
\* was uploaded, loaded is what load_url_text hands back
resolve_input(text_input, url_input, image_upload, loaded) ==
    IF text_input # <<>>
    THEN [ text |-> text_input, source_type |-> "text", warnings |-> <<>> ]
    ELSE IF url_input # <<>>
    THEN [ text |-> loaded, source_type |-> "url",
           warnings |-> IF StartsWith(loaded, << "[" >>) /\ HoldsError(loaded)
                        THEN << "URL returned an error. See message in preview." >>
                        ELSE <<>> ]
    ELSE IF image_upload
    THEN LET text == extract_text_from_image(image_upload)
         IN  [ text |-> text, source_type |-> "image",
               warnings |-> IF \/ StartsWith(text, << "[No", "readable", "text" >>)
                               \/ StartsWith(text, << "[OCR", "Error" >>)
                               \/ StripLen(text) = 0
                            THEN << "OCR could not extract readable text." >>
                            ELSE <<>> ]
    ELSE [ text |-> <<>>, source_type |-> "None", warnings |-> << "No input provided." >> ]

\* the test of the run handler on a text it will not score
IsSentinel(text) ==
    StartsWith(text, << "[Error" >>) \/ StartsWith(text, << "[No", "readable" >>)

\* ------------------------------------------------------------------------
\* The page (app.py): widgets
\* ------------------------------------------------------------------------
AiModes == { "None (Math + Human Mode Only)", "Narrative Summary" }
ApiKeys == { "", "sk-key" }
Urls == { <<>>, Words(<< "https://news.example/story" >>) }

\* the AI widgets as the page is loaded
NoAi == [ ai_mode |-> "None (Math + Human Mode Only)", api_key |-> "" ]

\* the input widgets as the user can leave them before pressing the button:
\* only the widget of the selected input type exists
Sessions ==
    { [ input_type |-> "Text", user_text |-> t, url_value |-> <<>>, uploaded_image |-> FALSE,
        ai |-> NoAi ] : t \in UserTexts }
    \cup
    { [ input_type |-> "Image", user_text |-> <<>>, url_value |-> <<>>, uploaded_image |-> i,
        ai |-> NoAi ] : i \in BOOLEAN }
    \cup
    { [ input_type |-> "URL", user_text |-> <<>>, url_value |-> u, uploaded_image |-> FALSE,
        ai |-> NoAi ] : u \in Urls }

\* ------------------------------------------------------------------------
\* The pipeline (core/pipeline.py): frame of one call
\* ------------------------------------------------------------------------
IdleFrame ==
    [ pc |-> "idle", caller |-> "none", input_data |-> <<>>, input_mode |-> "TEXT",
      text |-> <<>>, narrative |-> NoneValue, intention |-> NoneValue, trace |-> NoneValue,
      narrative_engine_output |-> NoneValue, fact_stack_output |-> NoneValue,
      interpretation |-> NoneValue, markdown_report |-> <<>>, result |-> NoneValue,
      stages |-> <<>> ]

\* run_rippletruth_pipeline(input_data, input_mode) is entered
Frame(caller, input_data, input_mode) ==
    [ IdleFrame EXCEPT !.pc = "load", !.caller = caller,
                       !.input_data = input_data, !.input_mode = input_mode ]

load_input(input_data, input_mode, fetched) ==
    IF input_mode = "URL" THEN fetched ELSE input_data

\* a stage has run on the text of the frame; an exception leaves the call
Staged(name, field, value, next) ==
    IF IsRaised(value)
    THEN [ pipe EXCEPT !.pc = "raised", !.result = value, !.stages = Append(@, name) ]
    ELSE [ pipe EXCEPT !.pc = next, ![field] = value, !.stages = Append(@, name) ]

\* variant: the safety check turns away a text of exactly 10 characters too
P_Load_ten_rejected ==
    /\ pipe.pc = "load"
    /\ \E fetched \in FetchOutcomes :
         LET text == load_input(pipe.input_data, pipe.input_mode, fetched)
         IN  pipe' = IF text = <<>> \/ StripLen(text) <= 10
                     THEN [ pipe EXCEPT !.pc = "returned", !.text = text,
                              !.result = [ error |-> "No usable text extracted from input." ] ]
                     ELSE [ pipe EXCEPT !.pc = "narrative", !.text = text ]
    /\ UNCHANGED << requests, globals, session, app, last, call >>

\* 0. resolve the text, and the safety check
P_Load ==
    /\ pipe.pc = "load"
    /\ \E fetched \in FetchOutcomes :
         LET text == load_input(pipe.input_data, pipe.input_mode, fetched)
         IN  pipe' = IF text = <<>> \/ StripLen(text) < 10
                     THEN [ pipe EXCEPT !.pc = "returned", !.text = text,
                              !.result = [ error |-> "No usable text extracted from input." ] ]
                     ELSE [ pipe EXCEPT !.pc = "narrative", !.text = text ]
    /\ UNCHANGED << requests, globals, session, app, last, call >>

\* 1. narrative analysis
P_Narrative ==
    /\ pipe.pc = "narrative"
    /\ pipe' = Staged("narrative", "narrative", analyze_narrative(pipe.text), "intention")
    /\ UNCHANGED << requests, globals, session, app, last, call >>

\* 2. intention math
P_Intention ==
    /\ pipe.pc = "intention"
    /\ pipe' = Staged("intention", "intention",
                      run_intention_math(pipe.text, pipe.narrative), "traceback")
    /\ UNCHANGED << requests, globals, session, app, last, call >>

\* 3. traceback / origin modeling that also raises the prior of the actor
\* it found dominant
P_Traceback_learning ==
    /\ pipe.pc = "traceback"
    /\ LET trace == run_traceback(pipe.text, pipe.narrative, pipe.intention)
           k == CHOOSE i \in 1..Len(Actors) : Actors[i] = trace.interpretation.actor
       IN  /\ pipe' = Staged("traceback", "trace", trace, "narrative_engine")
           /\ globals' = [ globals EXCEPT !.ACTOR_PRIORS[k] = @ + 10 ]
    /\ UNCHANGED << requests, session, app, last, call >>

\* 3. traceback / origin modeling
P_Traceback ==
    /\ pipe.pc = "traceback"
    /\ pipe' = Staged("traceback", "trace",
                      run_traceback(pipe.text, pipe.narrative, pipe.intention),
                      "narrative_engine")
    /\ UNCHANGED << requests, globals, session, app, last, call >>

\* 4. unified narrative engine
P_NarrativeEngine ==
    /\ pipe.pc = "narrative_engine"
    /\ pipe' = Staged("narrative_engine", "narrative_engine_output",
                      NarrativeEngine_analyze(pipe.text, pipe.intention, pipe.narrative),
                      "fact_stack")
    /\ UNCHANGED << requests, globals, session, app, last, call >>

\* variant: the report is assembled right after the fact-stack engine, before
\* the interpretation layer has run
P_FactStack_report_next ==
    /\ pipe.pc = "fact_stack"
    /\ pipe' = Staged("fact_stack", "fact_stack_output",
                      FactStackEngine_analyze(pipe.text), "report")
    /\ UNCHANGED << requests, globals, session, app, last, call >>

\* 5. fact-stack engine
P_FactStack ==
    /\ pipe.pc = "fact_stack"
    /\ pipe' = Staged("fact_stack", "fact_stack_output",
                      FactStackEngine_analyze(pipe.text), "interpretation")
    /\ UNCHANGED << requests, globals, session, app, last, call >>

\* 6. interpretation layer
P_Interpretation ==
    /\ pipe.pc = "interpretation"
    /\ pipe' = Staged("interpretation", "interpretation",
                      generate_interpretation(pipe.narrative, pipe.intention, pipe.trace,
                                              pipe.narrative_engine_output),
                      "report")
    /\ UNCHANGED << requests, globals, session, app, last, call >>

\* 7. final markdown, and 8. the unified bundle is returned
P_Report ==
    /\ pipe.pc = "report"
    /\ LET markdown_report ==
             build_markdown_report(pipe.narrative, pipe.intention, pipe.trace,
                                   pipe.interpretation, pipe.narrative_engine_output,
                                   pipe.fact_stack_output)
       IN  pipe' = [ pipe EXCEPT
                       !.pc = "returned",
                       !.markdown_report = markdown_report,
                       !.stages = Append(@, "report"),
                       !.result = [ markdown         |-> markdown_report,
                                    narrative        |-> pipe.narrative,
                                    intention        |-> pipe.intention,
                                    traceback        |-> pipe.trace,
                                    narrative_engine |-> pipe.narrative_engine_output,
                                    fact_stack       |-> pipe.fact_stack_output,
                                    interpretation   |-> pipe.interpretation,
                                    input_text       |-> pipe.text,
                                    input_mode       |-> pipe.input_mode ] ]
    /\ UNCHANGED << requests, globals, session, app, last, call >>

\* ------------------------------------------------------------------------
\* The page (app.py): the run handler
\* ------------------------------------------------------------------------
IdleApp ==
    [ pc |-> "idle", resolved |-> NoneValue, text |-> <<>>, ui |-> <<>>, error |-> NoneValue ]

\* one element put on the page
Shown(element, body) == [ element |-> element, body |-> body ]

\* st.error(...) followed by st.stop()
Stopped(a, body) == [ a EXCEPT !.pc = "stopped", !.ui = Append(@, Shown("st.error", body)) ]

\* The button is pressed: unified input resolution, the clean article of a
\* URL, the two stops, and the call of the pipeline on the resolved text.
A_Run ==
    /\ app.pc = "idle" /\ pipe.pc = "idle" /\ last.runs = 0 /\ call.fn = "none"
    /\ \E s \in Sessions, loaded \in LoadOutcomes, clean_text \in CleanOutcomes :
         LET resolved == resolve_input(s.user_text, s.url_value, s.uploaded_image, loaded)
             cleaned == s.input_type = "URL" /\ s.url_value # <<>>
             resolved2 == IF cleaned THEN [ resolved EXCEPT !.text = clean_text ] ELSE resolved
             a0 == [ IdleApp EXCEPT !.resolved = resolved ]
             a1 == IF cleaned
                   THEN [ a0 EXCEPT !.ui = Append(@, Shown("st.info", "Extracting clean article text from URL")) ]
                   ELSE a0
             a2 == [ a1 EXCEPT !.resolved = resolved2, !.text = resolved2.text ]
         IN  /\ session' = s
             /\ IF cleaned /\ IsSentinel(clean_text)
                THEN app' = Stopped(a1, clean_text) /\ pipe' = pipe
                ELSE IF resolved2.source_type = "None"
                THEN app' = Stopped([ a1 EXCEPT !.resolved = resolved2 ],
                                    Words(<< "No", "input", "provided." >>))
                     /\ pipe' = pipe
                ELSE IF IsSentinel(resolved2.text)
                THEN app' = Stopped(a2, resolved2.text) /\ pipe' = pipe
                ELSE /\ app' = [ a2 EXCEPT !.pc = "pipeline" ]
                     /\ pipe' = Frame("app", resolved2.text, "TEXT")
    /\ UNCHANGED << requests, globals, last, call >>

\* the keyword arguments run_ai_enhancement accepts, and those the page passes
AiParameters == { "text", "api_key", "mode" }
AiArguments == { "text", "narrative", "intention", "traceback", "mode", "api_key" }

\* the call run_ai_enhancement(**kwargs) of the page: an unexpected keyword
\* raises before the body runs
run_ai_enhancement_call(kwargs) ==
    IF ~(kwargs \subseteq AiParameters) THEN Raised("TypeError")
    ELSE Str(<< "ai output" >>)

\* ------------------------------------------------------------------------
\* AI enhancement (core/ai_engine.py)
\* ------------------------------------------------------------------------
\* the keys of the prompt library
AiPrompts == { "summary", "counter", "expand", "brief" }

\* what openai.ChatCompletion.create does: it answers, or it raises
AiCompletions == { Str(<< "model", "answer" >>), Raised("APIError") }

\* run_ai_enhancement(text, api_key, mode) with the module attribute
\* openai.api_key as it stands (the empty string stands for None): the string
\* returned, the request made of the service if any (it is made with the key
\* the module attribute holds), and the module attribute as the call leaves it
run_ai_enhancement(text, api_key, mode, openai_api_key, completion) ==
    IF api_key = ""
    THEN [ returned |-> Str(<< "No API key provided - AI enhancements disabled." >>),
           request |-> NoneValue,
           openai_api_key |-> openai_api_key ]
    ELSE LET prompt == IF mode \in AiPrompts THEN mode ELSE "summary"
         IN  [ returned |-> IF IsRaised(completion)
                            THEN Str(<< "AI enhancement failed:", completion.raised >>)
                            ELSE completion,
               request |-> [ api_key |-> api_key, prompt |-> prompt, text |-> text ],
               openai_api_key |-> api_key ]

\* the page an exception has ended
Failed(a, ui, e) == [ a EXCEPT !.pc = "raised", !.ui = ui, !.error = e ]

\* The pipeline has returned: the output is read and put on the page.  The
\* values of the two AI widgets are drawn here, where the handler first
\* looks at them.
A_Render ==
    /\ app.pc = "pipeline" /\ pipe.pc \in { "returned", "raised" } /\ pipe.caller = "app"
    /\ \E ai_mode \in AiModes, api_key \in ApiKeys :
       LET output == pipe.result
           text == app.text
           ai_off == ai_mode = "None (Math + Human Mode Only)"
       IN  /\ session' = [ session EXCEPT !.ai = [ ai_mode |-> ai_mode, api_key |-> api_key ] ]
           /\ app' =
             IF pipe.pc = "raised" THEN Failed(app, app.ui, output)
             ELSE IF ~({ "narrative", "intention", "traceback", "interpretation" }
                       \subseteq DOMAIN output)
             THEN Failed(app, app.ui, Raised("KeyError"))
             ELSE
             LET narrative == output.narrative
                 intention == output.intention
                 trace == output.traceback
                 interpretation_text == output.interpretation
                 ui1 == app.ui \o
                        << Shown("Narrative Summary", narrative),
                           Shown("Intention Field Metrics",
                                 [ FILS |-> intention.FILS, UCIP |-> intention.UCIP,
                                   TTCF |-> intention.TTCF, Drift |-> intention.Drift,
                                   RippleScore |-> intention.RippleScore ]),
                           Shown("Traceback / Origin Analysis",
                                 [ origin_label |-> DictGet(trace, "origin_label",
                                                            "general - low signal origin"),
                                   origin_conf |-> DictGet(trace, "origin_confidence", 0),
                                   amplification_pattern |-> trace.amplification_pattern,
                                   mutation_likelihood |-> trace.mutation_likelihood,
                                   RippleTruthIndex |-> RoundTo(trace.RippleTruthIndex, ONE \div 10) ]),
                           Shown("Human Narrative Assessment",
                                 human_narrative_summary(text, intention)) >>
                 ai_output == run_ai_enhancement_call(AiArguments)
                 ui2 == IF ~ai_off /\ api_key = ""
                        THEN Append(ui1, Shown("st.warning", "AI mode selected but no API key entered."))
                        ELSE IF api_key # "" /\ ~ai_off
                        THEN Append(ui1, Shown("AI-Enhanced Output", ai_output))
                        ELSE ui1
             IN  IF api_key # "" /\ ~ai_off /\ IsRaised(ai_output)
                 THEN Failed(app, Append(ui1, Shown("AI-Enhanced Output", NoneValue)), ai_output)
                 ELSE IF ~IsStr(interpretation_text)
                 \* interpretation_text.strip() on a dict
                 THEN Failed(app, Append(ui2, Shown("RippleTruth Interpretation", NoneValue)),
                             Raised("AttributeError"))
                 ELSE [ app EXCEPT !.pc = "done",
                          !.ui = Append(ui2, Shown("RippleTruth Interpretation", interpretation_text)) ]
    /\ pipe' = IdleFrame
    /\ UNCHANGED << requests, globals, last, call >>

\* ------------------------------------------------------------------------
\* A client that calls the pipeline itself, and calls it again
\* ------------------------------------------------------------------------
NoLast == [ runs |-> 0, input_data |-> <<>>, input_mode |-> "TEXT", text |-> <<>>,
            result |-> NoneValue ]

\* run_rippletruth_pipeline(input_data, input_mode) for a text, or for a URL
Api_Call ==
    /\ app.pc = "idle" /\ pipe.pc = "idle" /\ last.runs = 0 /\ call.fn = "none"
    /\ \/ \E t \in UserTexts : pipe' = Frame("api", t, "TEXT")
       \/ \E u \in Urls : pipe' = Frame("api", u, "URL")
    /\ UNCHANGED << requests, globals, session, app, last, call >>

\* the call is over: the client keeps what it got
Api_Return ==
    /\ pipe.caller = "api" /\ pipe.pc \in { "returned", "raised" }
    /\ last' = [ runs |-> last.runs + 1, input_data |-> pipe.input_data,
                 input_mode |-> pipe.input_mode, text |-> pipe.text, result |-> pipe.result ]
    /\ pipe' = IdleFrame
    /\ UNCHANGED << requests, globals, session, app, call >>

\* the same call once more
Api_CallAgain ==
    /\ pipe.pc = "idle" /\ last.runs = 1
    /\ pipe' = Frame("api", last.input_data, last.input_mode)
    /\ UNCHANGED << requests, globals, session, app, last, call >>

\* ------------------------------------------------------------------------
\* A server that runs calls of the pipeline side by side (core/pipeline.py).
\* One call runs alone first; then two calls run with their stages
\* interleaved, one on the text of the call that ran alone, one on another.
\* ------------------------------------------------------------------------
RequestIds == { "alone", "a", "b" }

NoRequests == [ r \in RequestIds |-> IdleFrame ]

\* the texts the server is called on: four that are scored, one too short
ConcurrentTexts ==
    { << Tok("must", FALSE), Tok("good", FALSE), Tok("fear", TRUE) >>,
      << Tok("attack", FALSE), Tok("attack", FALSE), Tok("tax", TRUE) >>,
      << Tok("good", FALSE), Tok("good", FALSE), Tok("good", FALSE) >>,
      << Tok("tax", TRUE), Tok("tax", TRUE), Tok("must", FALSE) >>,
      << Tok("must", FALSE) >> }

\* a call of the server is over
Over(f) == f.pc \in { "returned", "raised" }

\* a stage has run on the text of frame f; an exception leaves the call
StagedIn(f, name, field, value, next) ==
    IF IsRaised(value)
    THEN [ f EXCEPT !.pc = "raised", !.result = value, !.stages = Append(@, name) ]
    ELSE [ f EXCEPT !.pc = next, ![field] = value, !.stages = Append(@, name) ]

\* run_rippletruth_pipeline(text) is entered by request r
R_Call(r) ==
    /\ app.pc = "idle" /\ pipe.pc = "idle" /\ last.runs = 0 /\ call.fn = "none"
    /\ requests[r].pc = "idle"
    /\ \E t \in ConcurrentTexts :
         /\ CASE r = "alone" -> requests["a"].pc = "idle" /\ requests["b"].pc = "idle"
              [] r = "a" -> Over(requests["alone"]) /\ t = requests["alone"].input_data
              [] OTHER -> Over(requests["alone"]) /\ t # requests["alone"].input_data
         /\ requests' = [ requests EXCEPT ![r] = Frame(r, t, "TEXT") ]
    /\ UNCHANGED << globals, session, app, pipe, last, call >>

\* 0. resolve the text, and the safety check
R_Load(r) ==
    /\ requests[r].pc = "load"
    /\ \E fetched \in FetchOutcomes :
         LET f == requests[r]
             text == load_input(f.input_data, f.input_mode, fetched)
         IN  requests' = [ requests EXCEPT ![r] =
                 IF text = <<>> \/ StripLen(text) < 10
                 THEN [ f EXCEPT !.pc = "returned", !.text = text,
                          !.result = [ error |-> "No usable text extracted from input." ] ]
                 ELSE [ f EXCEPT !.pc = "narrative", !.text = text ] ]
    /\ UNCHANGED << globals, session, app, pipe, last, call >>

\* 1. narrative analysis
R_Narrative(r) ==
    /\ requests[r].pc = "narrative"
    /\ requests' = [ requests EXCEPT ![r] =
         StagedIn(@, "narrative", "narrative", analyze_narrative(@.text), "intention") ]
    /\ UNCHANGED << globals, session, app, pipe, last, call >>

\* 2. intention math
R_Intention(r) ==
    /\ requests[r].pc = "intention"
    /\ requests' = [ requests EXCEPT ![r] =
         StagedIn(@, "intention", "intention", run_intention_math(@.text, @.narrative),
                  "traceback") ]
    /\ UNCHANGED << globals, session, app, pipe, last, call >>

\* 3. traceback / origin modeling that also raises the prior of the actor
\* it found dominant
R_Traceback_learning(r) ==
    /\ requests[r].pc = "traceback"
    /\ LET f == requests[r]
           trace == run_traceback(f.text, f.narrative, f.intention)
           k == CHOOSE i \in 1..Len(Actors) : Actors[i] = trace.interpretation.actor
       IN  /\ requests' = [ requests EXCEPT ![r] =
                 StagedIn(f, "traceback", "trace", trace, "narrative_engine") ]
           /\ globals' = [ globals EXCEPT !.ACTOR_PRIORS[k] = @ + 10 ]
    /\ UNCHANGED << session, app, pipe, last, call >>

\* 3. traceback / origin modeling
R_Traceback(r) ==
    /\ requests[r].pc = "traceback"
    /\ requests' = [ requests EXCEPT ![r] =
         StagedIn(@, "traceback", "trace", run_traceback(@.text, @.narrative, @.intention),
                  "narrative_engine") ]
    /\ UNCHANGED << globals, session, app, pipe, last, call >>

\* 4. unified narrative engine
R_NarrativeEngine(r) ==
    /\ requests[r].pc = "narrative_engine"
    /\ requests' = [ requests EXCEPT ![r] =
         StagedIn(@, "narrative_engine", "narrative_engine_output",
                  NarrativeEngine_analyze(@.text, @.intention, @.narrative), "fact_stack") ]
    /\ UNCHANGED << globals, session, app, pipe, last, call >>

\* 5. fact-stack engine
R_FactStack(r) ==
    /\ requests[r].pc = "fact_stack"
    /\ requests' = [ requests EXCEPT ![r] =
         StagedIn(@, "fact_stack", "fact_stack_output", FactStackEngine_analyze(@.text),
                  "interpretation") ]
    /\ UNCHANGED << globals, session, app, pipe, last, call >>

\* 6. interpretation layer
R_Interpretation(r) ==
    /\ requests[r].pc = "interpretation"
    /\ requests' = [ requests EXCEPT ![r] =
         StagedIn(@, "interpretation", "interpretation",
                  generate_interpretation(@.narrative, @.intention, @.trace,
                                          @.narrative_engine_output),
                  "report") ]
    /\ UNCHANGED << globals, session, app, pipe, last, call >>

\* 7. final markdown, and 8. the unified bundle is returned
R_Report(r) ==
    /\ requests[r].pc = "report"
    /\ LET f == requests[r]
           markdown_report ==
             build_markdown_report(f.narrative, f.intention, f.trace, f.interpretation,
                                   f.narrative_engine_output, f.fact_stack_output)
       IN  requests' = [ requests EXCEPT ![r] =
               [ f EXCEPT
                   !.pc = "returned",
                   !.markdown_report = markdown_report,
                   !.stages = Append(@, "report"),
                   !.result = [ markdown         |-> markdown_report,
                                narrative        |-> f.narrative,
                                intention        |-> f.intention,
                                traceback        |-> f.trace,
                                narrative_engine |-> f.narrative_engine_output,
                                fact_stack       |-> f.fact_stack_output,
                                interpretation   |-> f.interpretation,
                                input_text       |-> f.text,
                                input_mode       |-> f.input_mode ] ] ]
    /\ UNCHANGED << globals, session, app, pipe, last, call >>

\* ------------------------------------------------------------------------
\* Direct calls of the scorers (core/intention_math.py, core/traceback_engine.py)
\* ------------------------------------------------------------------------
NoCall == [ fn |-> "none", args |-> NoneValue, result |-> NoneValue ]

\* the points 0, 1/Grid, .., 1 of [0,1]
GridValues == { (k * ONE) \div Grid : k \in 0..Grid }

\* the feature vectors over the grid
FeatureVectors ==
    [ { "intent_strength", "stability", "emotion", "volatility", "harmonics" } -> GridValues ]

\* a text of 20 tokens, 15 of them directive words
DirectiveExample ==
    [ i \in 1..20 |-> IF i <= 15 THEN Tok("must", FALSE) ELSE Tok("calm", FALSE) ]

\* the texts the extractors are called on: what a user types, and what the
\* readers hand back
ExtractorTexts ==
    SeqsUpTo(ExtractorTokens, MaxLen)
    \cup { OcrUnavailable, UrlFetchError, NoExtractableText, ArticleText, DirectiveExample }

\* intention dicts for run_traceback: None, the empty dict, and dicts whose
\* four actor inputs range over the grid and whose other metrics are at the
\* two ends of their range
TracebackInputs ==
    { NoneValue, EmptyDict }
    \cup
    { [ FILS |-> u, UCIP |-> u, TTCF |-> ONE - u, Drift |-> ONE - u, RippleScore |-> r,
        debug |-> [ intent_strength |-> i, stability |-> s, emotion |-> u,
                    volatility |-> ONE - u, harmonics |-> h ] ] :
        i \in GridValues, s \in GridValues, h \in GridValues, r \in GridValues,
        u \in { 0, ONE } }

\* the grid and the point 1/5, where ucip and ttcf one fifth apart put the
\* amplification pattern on 0.45
MetricValues == GridValues \cup { ONE \div 5 }

\* intention dicts for run_traceback whose stability, volatility, UCIP and
\* TTCF range over the grid independently, with Drift and RippleScore at the
\* two ends of their range
TracebackMetricInputs ==
    { [ FILS |-> 0, UCIP |-> u, TTCF |-> t, Drift |-> d, RippleScore |-> r,
        debug |-> [ intent_strength |-> 0, stability |-> s, emotion |-> 0,
                    volatility |-> v, harmonics |-> 0 ] ] :
        s \in GridValues, v \in GridValues, u \in MetricValues, t \in MetricValues,
        d \in { 0, ONE }, r \in { 0, ONE } }

\* the five extractors on one text
Call_ExtractFeatures ==
    /\ call.fn = "none" /\ pipe.pc = "idle" /\ app.pc = "idle"
    /\ \E text \in ExtractorTexts :
         call' = [ fn |-> "extract", args |-> [ text |-> text ], result |-> ExtractFeatures(text) ]
    /\ UNCHANGED << requests, globals, session, app, pipe, last >>

\* the intention math of run_intention_math on one feature vector
Call_IntentionMath ==
    /\ call.fn = "none" /\ pipe.pc = "idle" /\ app.pc = "idle"
    /\ \E f \in FeatureVectors :
         call' = [ fn |-> "run_intention_math", args |-> f, result |-> ApplyIntentionMath(f) ]
    /\ UNCHANGED << requests, globals, session, app, pipe, last >>

\* compute_ripplescore(fils, ucip, drift)
Call_Ripplescore ==
    /\ call.fn = "none" /\ pipe.pc = "idle" /\ app.pc = "idle"
    /\ \E fils \in GridValues, ucip \in GridValues, drift \in GridValues :
         call' = [ fn |-> "compute_ripplescore",
                   args |-> [ fils |-> fils, ucip |-> ucip, drift |-> drift ],
                   result |-> [ value |-> compute_ripplescore(fils, ucip, drift) ] ]
    /\ UNCHANGED << requests, globals, session, app, pipe, last >>

\* run_traceback(text, narrative, intention)
Call_Traceback ==
    /\ call.fn = "none" /\ pipe.pc = "idle" /\ app.pc = "idle"
    /\ \E intention \in TracebackInputs \cup TracebackMetricInputs :
         call' = [ fn |-> "run_traceback", args |-> [ intention |-> intention ],
                   result |-> run_traceback(<<>>, NoneValue, intention) ]
    /\ UNCHANGED << requests, globals, session, app, pipe, last >>

\* "The economy is great and will improve."
EconomyExample ==
    << Tok("The", FALSE), Tok("economy", FALSE), Tok("is", FALSE), Tok("great", FALSE),
       Tok("and", FALSE), Tok("will", FALSE), Tok("improve", TRUE) >>

\* words for the classifier: keywords of every topic rule, of both tone
\* rules, of every structure rule, of both polarity lists, and words of no rule
ClassifierTokens ==
    { Tok(w, FALSE) : w \in { "border", "economy", "vote", "crime", "attack", "fear", "concern",
                              "because", "thus", "report", "wow!", "good", "great", "calm" } }
    \cup { Tok("tax", TRUE) }

\* the texts the classifier is called on
ClassifierTexts == SeqsUpTo(ClassifierTokens, ClassifierLen) \cup { EconomyExample }

\* analyze_narrative(text)
Call_AnalyzeNarrative ==
    /\ call.fn = "none" /\ pipe.pc = "idle" /\ app.pc = "idle"
    /\ \E text \in ClassifierTexts :
         call' = [ fn |-> "analyze_narrative", args |-> [ text |-> text ],
                   result |-> analyze_narrative(text) ]
    /\ UNCHANGED << requests, globals, session, app, pipe, last >>

\* the texts whose stage results the report builder is called on
ReportTexts ==
    { << Tok("must", FALSE), Tok("good", FALSE), Tok("fear", TRUE) >>,
      << Tok("attack", FALSE), Tok("attack", FALSE), Tok("tax", TRUE), Tok("calm", FALSE) >> }

\* build_markdown_report on the stage results of a text, with the optional
\* results (narrative engine, fact stack) as they are, None or empty, and the
\* traceback as it is, skipped or empty
Call_Report ==
    /\ call.fn = "none" /\ pipe.pc = "idle" /\ app.pc = "idle"
    /\ \E text \in ReportTexts :
         LET narrative == analyze_narrative(text)
             intention == run_intention_math(text, narrative)
             trace == run_traceback(text, narrative, intention)
             engine == NarrativeEngine_analyze(text, intention, narrative)
             interpretation == generate_interpretation(narrative, intention, trace, engine)
         IN  \E traceback \in { trace, TracebackSkipped, EmptyDict },
                narrative_engine \in { engine, NoneValue, EmptyDict },
                fact_stack \in { FactStackEngine_analyze(text), NoneValue, EmptyDict } :
               call' = [ fn   |-> "build_markdown_report",
                         args |-> [ narrative |-> narrative, intention |-> intention,
                                    traceback |-> traceback, interpretation |-> interpretation,
                                    narrative_engine |-> narrative_engine,
                                    fact_stack |-> fact_stack ],
                         result |-> [ sections |->
                             build_markdown_report(narrative, intention, traceback, interpretation,
                                                   narrative_engine, fact_stack) ] ]
    /\ UNCHANGED << requests, globals, session, app, pipe, last >>

\* the keys and the modes run_ai_enhancement is called with: no key, the keys
\* of two users, two modes of the prompt library and one that is not in it
AiCallKeys == ApiKeys \cup { "sk-other" }
AiCallModes == { "summary", "counter", "Narrative Summary" }

\* run_ai_enhancement(text, api_key, mode), one call after the other in the
\* same process
Call_AiEnhancement ==
    /\ call.fn \in { "none", "run_ai_enhancement" } /\ pipe.pc = "idle" /\ app.pc = "idle"
    /\ \E text \in ReportTexts, api_key \in AiCallKeys, mode \in AiCallModes,
          completion \in AiCompletions :
         LET out == run_ai_enhancement(text, api_key, mode, globals.openai_api_key, completion)
         IN  /\ call' = [ fn |-> "run_ai_enhancement",
                          args |-> [ text |-> text, api_key |-> api_key, mode |-> mode ],
                          result |-> [ value |-> out.returned, request |-> out.request ] ]
             /\ globals' = [ globals EXCEPT !.openai_api_key = out.openai_api_key ]
    /\ UNCHANGED << requests, session, app, pipe, last >>

\* ------------------------------------------------------------------------
\* Specifications
\* ------------------------------------------------------------------------
Init ==
    /\ globals = [ ACTOR_PRIORS |-> InitialPriors, openai_api_key |-> "" ]
    /\ session = [ input_type |-> "Text", user_text |-> <<>>, url_value |-> <<>>,
                   uploaded_image |-> FALSE, ai |-> NoAi ]
    /\ app = IdleApp
    /\ pipe = IdleFrame
    /\ last = NoLast
    /\ call = NoCall
    /\ requests = NoRequests

\* the page and the pipeline
Next ==
    \/ A_Run
    \/ A_Render
    \/ P_Load
    \/ P_Narrative
    \/ P_Intention
    \/ P_Traceback
    \/ P_NarrativeEngine
    \/ P_FactStack
    \/ P_Interpretation
    \/ P_Report
    \/ Api_Call
    \/ Api_Return
    \/ Api_CallAgain

Spec == Init /\ [][Next]_vars

\* the scorers called one by one
NextScore ==
    \/ Call_ExtractFeatures
    \/ Call_IntentionMath
    \/ Call_Ripplescore
    \/ Call_Traceback
    \/ Call_Report
    \/ Call_AnalyzeNarrative
    \/ Call_AiEnhancement

SpecScore == Init /\ [][NextScore]_vars

\* the server: a call alone, then two calls side by side
NextConcurrent ==
    \/ \E r \in RequestIds : R_Call(r)
    \/ \E r \in RequestIds : R_Load(r)
    \/ \E r \in RequestIds : R_Narrative(r)
    \/ \E r \in RequestIds : R_Intention(r)
    \/ \E r \in RequestIds : R_Traceback(r)
    \/ \E r \in RequestIds : R_NarrativeEngine(r)
    \/ \E r \in RequestIds : R_FactStack(r)
    \/ \E r \in RequestIds : R_Interpretation(r)
    \/ \E r \in RequestIds : R_Report(r)

SpecConcurrent == Init /\ [][NextConcurrent]_vars

\* ------------------------------------------------------------------------
\* Properties
\* ------------------------------------------------------------------------
ReportKeys == { "narrative", "intention", "traceback", "interpretation" }
FeatureNames == { "intent_strength", "stability", "emotion", "volatility", "harmonics" }
MetricNames == { "FILS", "UCIP", "TTCF", "Drift", "RippleScore" }

\* a call of the pipeline is over
PipelineOver == pipe.pc \in { "returned", "raised" }

\* C1: every call of run_rippletruth_pipeline, whatever the input string,
\* returns a report that holds narrative, intention, traceback and
\* interpretation; it never returns an error result and never raises.
C1_PipelineTotal ==
    PipelineOver =>
        /\ pipe.pc = "returned"
        /\ "error" \notin DOMAIN pipe.result
        /\ ReportKeys \subseteq DOMAIN pipe.result

\* C2: no scoring stage runs on a failure string of load_url_text,
\* fetch_url_text or extract_text_from_image: while the text of the pipeline
\* is such a string, no stage has run.
C2_NoStageOnFailureString ==
    pipe.text \in FailureStrings => pipe.stages = <<>>

\* C3: for every text, each of the five extracted features is there and is a
\* number in [0,1].
C3_FeaturesInUnitInterval ==
    call.fn = "extract" =>
        /\ DOMAIN call.result = FeatureNames
        /\ \A k \in FeatureNames : call.result[k] >= 0 /\ call.result[k] <= ONE

\* the extractors have run on a text that is a full stop and nothing else
C3_Witness ==
    /\ call.fn = "extract"
    /\ call.args.text = << Tok("", TRUE) >>
    /\ call.result.intent_strength = 0
    /\ call.result.stability = ONE \div 2

\* C4: for every feature vector in [0,1]^5, each of FILS, UCIP, TTCF, Drift
\* and RippleScore of the intention scorer is in [0,1].
C4_MetricsInUnitInterval ==
    call.fn = "run_intention_math" =>
        \A k \in MetricNames : call.result[k] >= 0 /\ call.result[k] <= ONE

\* the scorer has run on a vector whose weighted sum for RippleScore is
\* below zero
C4_Witness ==
    /\ call.fn = "run_intention_math"
    /\ call.args.harmonics = ONE /\ call.args.intent_strength = 0
    /\ call.args.stability = 0 /\ call.args.emotion = 0 /\ call.args.volatility = 0
    /\ call.result.RippleScore = 0

\* the reference computation of the five metrics, in the fixed order
Clamp01(x) == IF x < 0 THEN 0 ELSE IF x > ONE THEN ONE ELSE x

Reference(f) ==
    LET FILS == Clamp01((60 * f.intent_strength + 25 * f.stability + 15 * f.emotion) \div 100)
        UCIP == Clamp01((50 * FILS + 30 * f.stability + 20 * f.harmonics) \div 100)
        TTCF == Clamp01((70 * f.volatility + 30 * ((2 * f.volatility) \div 10)) \div 100)
        Drift == Clamp01((Abs(FILS - UCIP) + (ONE - TTCF)) \div 2)
        RippleScore == Clamp01((45 * FILS + 45 * UCIP - 25 * Drift) \div 100)
    IN  [ FILS |-> FILS, UCIP |-> UCIP, TTCF |-> TTCF, Drift |-> Drift,
          RippleScore |-> RippleScore ]

\* C5 as claimed: for every feature vector the five metrics run_intention_math
\* returns equal the reference computation.
C5_EqualsReference ==
    call.fn = "run_intention_math" =>
        \A k \in MetricNames : call.result[k] = Reference(call.args)[k]

\* C5: for every feature vector each metric run_intention_math returns is the
\* metric of the reference computation rounded to 4 decimal places: a
\* multiple of 0.0001 at most 0.00005 away from it.
C5_EqualsReferenceRounded ==
    call.fn = "run_intention_math" =>
        \A k \in MetricNames :
            /\ call.result[k] % RoundUnit = 0
            /\ 2 * Abs(call.result[k] - Reference(call.args)[k]) <= RoundUnit

\* the scorer has run on a vector for which a metric has more than 4 places
C5_Witness ==
    /\ call.fn = "run_intention_math"
    /\ \E k \in MetricNames : call.result[k] # Reference(call.args)[k]
    /\ call.result.FILS # call.result.UCIP

\* C6: compute_ripplescore does not fall when FILS rises, nor when UCIP
\* rises, the other two arguments being the same.
C6_RippleScoreMonotone ==
    call.fn = "compute_ripplescore" =>
        /\ \A fils2 \in GridValues :
             fils2 >= call.args.fils =>
               compute_ripplescore(fils2, call.args.ucip, call.args.drift) >= call.result.value
        /\ \A ucip2 \in GridValues :
             ucip2 >= call.args.ucip =>
               compute_ripplescore(call.args.fils, ucip2, call.args.drift) >= call.result.value

\* compute_ripplescore has run below the top of the grid with a score that
\* is neither clipped to 0 nor to 1
C6_Witness ==
    /\ call.fn = "compute_ripplescore"
    /\ call.args.fils < ONE /\ call.args.ucip < ONE
    /\ call.result.value > 0 /\ call.result.value < ONE

\* the intention metrics of a call of run_traceback are there
MetricsGiven == call.fn = "run_traceback" /\ ~Falsy(call.args.intention)

\* C7: the actor distribution of the traceback scorer has exactly the four
\* actor categories, no probability is below zero, and the four sum to 1.
C7_ActorDistribution ==
    MetricsGiven =>
        /\ ~IsRaised(call.result)
        /\ LET p == call.result.actor_probabilities
           IN  /\ DOMAIN p = { Actors[i] : i \in 1..Len(Actors) }
               /\ Len(Actors) = 4
               /\ \A a \in DOMAIN p :
                    /\ p[a].den.mag # <<>> /\ ~p[a].den.neg
                    /\ ~p[a].num.neg
               /\ \A a \in DOMAIN p :
                    SignedSum([ i \in 1..Len(Actors) |-> p[Actors[i]].num ]) = p[a].den

\* the scorer has run with every actor input at its top, and the citizen is
\* not the likeliest actor
C7_Witness ==
    /\ MetricsGiven
    /\ call.args.intention.debug.intent_strength = ONE
    /\ call.args.intention.debug.harmonics = ONE
    /\ call.args.intention.RippleScore = ONE
    /\ ~IsRaised(call.result)
    /\ call.result.interpretation.actor # "Citizen / Civilian"

\* C8 as claimed: the RippleTruthIndex of every result of run_traceback is
\* strictly between 1 and 99.
C8_IndexStrictlyInside ==
    call.fn = "run_traceback" =>
        /\ call.result.RippleTruthIndex > 1 * ONE
        /\ call.result.RippleTruthIndex < 99 * ONE

\* C8: the RippleTruthIndex of a result of run_traceback is in the closed
\* interval [1, 99] when the intention metrics are there, and 0 in the
\* zeroed result for missing metrics.
C8_IndexClosedRange ==
    call.fn = "run_traceback" =>
        /\ ~IsRaised(call.result)
        /\ IF Falsy(call.args.intention)
           THEN call.result.RippleTruthIndex = 0
           ELSE /\ call.result.RippleTruthIndex >= 1 * ONE
                /\ call.result.RippleTruthIndex <= 99 * ONE

\* the index has been clipped at 99
C8_Witness ==
    /\ MetricsGiven
    /\ call.args.intention.debug.stability = ONE
    /\ call.args.intention.UCIP = ONE
    /\ call.args.intention.RippleScore = ONE
    /\ call.result.RippleTruthIndex = 99 * ONE

\* C9: with the intention metrics None or empty, run_traceback does not
\* raise and returns the zeroed result with the fixed interpretation.
C9_MissingIntention ==
    (call.fn = "run_traceback" /\ call.args.intention \in { NoneValue, EmptyDict }) =>
        /\ ~IsRaised(call.result)
        /\ call.result.actor_probabilities = EmptyDict
        /\ call.result.amplification_pattern = 0
        /\ call.result.mutation_likelihood = 0
        /\ call.result.RippleTruthIndex = 0
        /\ call.result.interpretation =
             [ said |-> "Intention signals missing - traceback skipped." ]

\* run_traceback has returned on the empty dict
C9_Witness ==
    /\ call.fn = "run_traceback"
    /\ call.args.intention = EmptyDict
    /\ ~IsRaised(call.result)
    /\ call.result.RippleTruthIndex = 0

\* C10: a second call of the pipeline that works on the same text as the
\* first returns the same output: narrative, metrics, traceback,
\* interpretation and report.
C10_Deterministic ==
    (pipe.caller = "api" /\ PipelineOver /\ last.runs = 1 /\ pipe.text = last.text) =>
        pipe.result = last.result

\* a second call has returned a whole report on the text of the first
C10_Witness ==
    /\ pipe.caller = "api" /\ pipe.pc = "returned" /\ last.runs = 1
    /\ pipe.text = last.text
    /\ Len(pipe.text) >= 4
    /\ "markdown" \in DOMAIN pipe.result
    /\ pipe.stages = << "narrative", "intention", "traceback", "narrative_engine",
                        "fact_stack", "interpretation", "report" >>

\* C11: a call of the pipeline that runs side by side with a call on another
\* text, their stages interleaved in any order, ends with the result the call
\* on its text had when it ran alone; and no stage has written the module
\* state the calls share.
C11_ConcurrentAsAlone ==
    /\ globals.ACTOR_PRIORS = InitialPriors
    /\ (Over(requests["a"]) /\ requests["b"].pc # "idle") =>
          /\ requests["a"].text = requests["alone"].text
          /\ requests["a"].pc = requests["alone"].pc
          /\ requests["a"].result = requests["alone"].result

\* a call has returned a whole report while the call on another text was in
\* the middle of its stages, having started before it and run its traceback
\* after the first call's
C11_Witness ==
    /\ requests["a"].pc = "returned"
    /\ "markdown" \in DOMAIN requests["a"].result
    /\ requests["b"].pc = "narrative_engine"
    /\ requests["b"].text # requests["a"].text
    /\ requests["a"].result = requests["alone"].result

\* the run handler is over, on a page where an AI mode and an API key were
\* entered and the pipeline had returned its report
AiRequested ==
    /\ app.pc \in { "done", "raised" }
    /\ session.ai.api_key # "" /\ session.ai.ai_mode # "None (Math + Human Mode Only)"
    /\ \E i \in 1..Len(app.ui) : app.ui[i].element = "Human Narrative Assessment"

\* C12 as claimed: the AI enhancement never surfaces an exception to the run
\* handler: whenever an AI mode and a key are entered, the AI section shows a
\* string (the model's text or a warning) and the Interpretation section
\* follows it.
C12_AiNeverRaises ==
    AiRequested =>
        /\ app.error # Raised("TypeError")
        /\ \E i \in 1..Len(app.ui) :
             app.ui[i].element = "AI-Enhanced Output" /\ IsStr(app.ui[i].body)
        /\ \E i \in 1..Len(app.ui) : app.ui[i].element = "RippleTruth Interpretation"

\* the place of a section in the order of the report, by its title in the
\* markdown report or on the page; 0 for an element the order does not name
SectionRank(title) ==
    CASE title \in { "Narrative Analysis", "Narrative Summary" } -> 1
      [] title \in { "Intention Metrics", "Intention Field Metrics" } -> 2
      [] title \in { "Traceback Modeling", "Traceback / Origin Analysis" } -> 3
      [] title = "Human Narrative Assessment" -> 4
      [] title = "AI-Enhanced Output" -> 5
      [] title \in { "Interpretation", "RippleTruth Interpretation" } -> 6
      [] OTHER -> 0

\* the named sections of a list of titles come in the order of their ranks
InSectionOrder(titles) ==
    \A i, j \in 1..Len(titles) :
        (i < j /\ SectionRank(titles[i]) # 0 /\ SectionRank(titles[j]) # 0)
            => SectionRank(titles[i]) < SectionRank(titles[j])

SectionBody(sections, title) ==
    (CHOOSE sec \in { sections[i] : i \in 1..Len(sections) } : sec.title = title).body

\* C14: build_markdown_report renders all six sections for every input; the
\* Fact Stack and the Narrative Engine section of a result that is None or
\* empty, and the actor model of an empty actor distribution, hold their
\* placeholder text.
C14_EverySectionRendered ==
    call.fn = "build_markdown_report" =>
        LET sections == call.result.sections
        IN  /\ [ i \in 1..Len(sections) |-> sections[i].title ]
                 = << "Narrative Analysis", "Intention Metrics", "Fact Stack",
                      "Narrative Engine (Fusion)", "Traceback Modeling", "Interpretation" >>
            /\ Falsy(call.args.fact_stack) =>
                 SectionBody(sections, "Fact Stack")
                   = Str(<< "_No Fact-Stack analysis performed._" >>)
            /\ Falsy(call.args.narrative_engine) =>
                 SectionBody(sections, "Narrative Engine (Fusion)")
                   = Str(<< "_Narrative engine not invoked._" >>)
            /\ Falsy(DictGet(call.args.traceback, "actor_probabilities", EmptyDict)) =>
                 SectionBody(sections, "Traceback Modeling").parts.actors_md
                   = << [ said |-> "_No actor data available_" ] >>

\* the builder has run with the fact stack None, the narrative engine result
\* empty and the traceback skipped
C14_Witness ==
    /\ call.fn = "build_markdown_report"
    /\ call.args.fact_stack = NoneValue
    /\ call.args.narrative_engine = EmptyDict
    /\ call.args.traceback = TracebackSkipped
    /\ Len(call.result.sections) = 6

\* C15 as claimed: the interpretation composer returns a string, with or
\* without the force sub-score; the 'interpretation' of every report the
\* pipeline returns is a string.
C15_InterpretationIsString ==
    (pipe.pc = "returned" /\ "interpretation" \in DOMAIN pipe.result) =>
        IsStr(pipe.result.interpretation)

\* C16 as claimed: "The economy is great and will improve." is classified
\* Economy, Positive, Low Emotional Load, General Statement; and a text with
\* the positive keyword "great" and no negative keyword is Positive.
C16_EconomyExamplePositive ==
    call.fn = "analyze_narrative" =>
        /\ call.args.text = EconomyExample =>
             call.result = [ topic |-> "Economy", polarity |-> "Positive",
                             tone |-> "Low Emotional Load", structure |-> "General Statement" ]
        /\ (InText("great", call.args.text) /\ ~InText("fear", call.args.text)) =>
             call.result.polarity = "Positive"

\* the pieces of text.split(".") of more than 4 characters
QualifyingSentences(text) == SelectSeq(SplitDot(text, <<>>), LAMBDA ws : PieceLen(ws) > 4)

\* C17: the features of the empty string are intent_strength 0, stability
\* 0.5, emotion 0.5, volatility 0.1, harmonics 0; for every text, no tokens
\* gives intent_strength 0 and harmonics 0, fewer than 2 qualifying sentences
\* gives stability 0.5, no positive and no negative hit gives emotion 0.5,
\* fewer than 4 tokens gives volatility 0.1.
C17_EmptyTextDefaults ==
    call.fn = "extract" =>
        LET text == call.args.text
            f == call.result
        IN  /\ text = <<>> =>
                 f = [ intent_strength |-> 0, stability |-> ONE \div 2, emotion |-> ONE \div 2,
                       volatility |-> ONE \div 10, harmonics |-> 0 ]
            /\ Len(text) = 0 => f.intent_strength = 0 /\ f.harmonics = 0
            /\ Len(QualifyingSentences(text)) < 2 => f.stability = ONE \div 2
            /\ (\A w \in emotion_positive \cup emotion_negative : ~InText(w, text))
                 => f.emotion = ONE \div 2
            /\ Len(text) < 4 => f.volatility = ONE \div 10

\* the extractors have run on the empty string
C17_Witness ==
    /\ call.fn = "extract"
    /\ call.args.text = <<>>
    /\ call.result.stability = ONE \div 2
    /\ call.result.volatility = ONE \div 10

\* the number of tokens of a text that are directive words
DirectiveCount(text) ==
    Cardinality({ i \in 1..Len(text) : ~text[i].dot /\ Lower(text[i].w) \in strong_words })

\* C20: intent_strength is min(1, 4 * d / n) for n tokens, d of them
\* directive words: it is 1.0 exactly when 4 * d >= n, and never above 1.0.
\* (n divides FeatureDen for every text of the model, so the ratio is exact.)
C20_IntentStrengthFormula ==
    (call.fn = "extract" /\ call.args.text # <<>>) =>
        LET n == Len(call.args.text)
            d == DirectiveCount(call.args.text)
            x == call.result.intent_strength
        IN  /\ x <= ONE
            /\ (x = ONE) <=> (4 * d >= n)
            /\ (FeatureDen % n = 0) => x * n = Min(n, 4 * d) * ONE

\* the extractors have run on the text of 20 tokens with 15 directive words
C20_Witness ==
    /\ call.fn = "extract"
    /\ call.args.text = DirectiveExample
    /\ DirectiveCount(call.args.text) = 15
    /\ call.result.intent_strength = ONE

\* the rules of the classifier as the specification lists them: for each
\* sub-field the labels in priority order, each with its keywords
TopicRules ==
    << [ label |-> "Immigration", words |-> { "immigration", "border", "migrant" } ],
       [ label |-> "Economy", words |-> { "economy", "inflation", "jobs", "market" } ],
       [ label |-> "Elections", words |-> { "election", "vote", "campaign", "ballot" } ],
       [ label |-> "Crime", words |-> { "crime", "violence", "police" } ],
       [ label |-> "Foreign Policy", words |-> { "war", "military", "strike", "attack" } ] >>

ToneRules ==
    << [ label |-> "High Emotional Load", words |-> { "panic", "fear", "urgent", "chaos", "anger" } ],
       [ label |-> "Moderate Emotional Load", words |-> { "concern", "worry", "uncertain" } ] >>

StructureRules ==
    << [ label |-> "Claim with Reason", words |-> { "because" } ],
       [ label |-> "Argument / Conclusion", words |-> { "therefore", "thus" } ],
       [ label |-> "Reported Information", words |-> { "report" } ],
       [ label |-> "Emphatic / Emotional Statement", words |-> { "!" } ] >>

PolarityWords ==
    { "good", "hope", "success", "progress", "peace",
      "bad", "fear", "danger", "threat", "corrupt", "fraud" }

\* a keyword of the rule occurs somewhere in the text
RuleHits(rule, text) ==
    \E kw \in rule.words : \E i \in 1..Len(text) : SubstringOf(kw, Lower(text[i].w))

\* the two-word keywords "due to" and "sources say" occur in the text
PhraseHits(text) ==
    \E i \in 1..(Len(text) - 1) :
        << Lower(text[i].w), Lower(text[i + 1].w) >> \in { << "due", "to" >>, << "sources", "say" >> }

\* the label of the first rule, in priority order, that the text matches
FirstLabel(rules, text, default) ==
    IF \E k \in 1..Len(rules) : RuleHits(rules[k], text)
    THEN rules[CHOOSE k \in 1..Len(rules) :
                 /\ RuleHits(rules[k], text)
                 /\ \A j \in 1..(k - 1) : ~RuleHits(rules[j], text)].label
    ELSE default

\* no keyword of any rule occurs in the text
NoRuleKeyword(text) ==
    /\ \A k \in 1..Len(TopicRules) : ~RuleHits(TopicRules[k], text)
    /\ \A k \in 1..Len(ToneRules) : ~RuleHits(ToneRules[k], text)
    /\ \A k \in 1..Len(StructureRules) : ~RuleHits(StructureRules[k], text)
    /\ ~RuleHits([ words |-> PolarityWords ], text)
    /\ ~PhraseHits(text)

\* C18: analyze_narrative returns its four labels for every text, and for a
\* text with no keyword of any rule, the empty string among them, the
\* defaults General, Neutral, Low Emotional Load, General Statement.
C18_ClassifierDefaults ==
    call.fn = "analyze_narrative" =>
        /\ DOMAIN call.result = { "topic", "polarity", "tone", "structure" }
        /\ call.result.polarity \in { "Positive", "Negative", "Neutral" }
        /\ NoRuleKeyword(call.args.text) =>
             call.result = [ topic |-> "General", polarity |-> "Neutral",
                             tone |-> "Low Emotional Load", structure |-> "General Statement" ]

\* the classifier has run on a text of two words that are keywords of no rule
C18_Witness ==
    /\ call.fn = "analyze_narrative"
    /\ call.args.text = << Tok("calm", FALSE), Tok("great", FALSE) >>
    /\ call.result.topic = "General"
    /\ call.result.polarity = "Neutral"

\* C19: topic, tone and structure are each the label of the first rule, in
\* the fixed priority order, of which the text holds a keyword, wherever the
\* keywords stand in the text; a text with keywords of several rules gets the
\* label of the rule of highest priority.
C19_FirstMatchingRule ==
    (call.fn = "analyze_narrative" /\ ~PhraseHits(call.args.text)) =>
        /\ call.result.topic = FirstLabel(TopicRules, call.args.text, "General")
        /\ call.result.tone = FirstLabel(ToneRules, call.args.text, "Low Emotional Load")
        /\ call.result.structure = FirstLabel(StructureRules, call.args.text, "General Statement")

\* the classifier has run on a text whose Economy keyword stands before its
\* Immigration keyword
C19_Witness ==
    /\ call.fn = "analyze_narrative"
    /\ call.args.text = << Tok("economy", FALSE), Tok("border", FALSE) >>
    /\ call.result.topic = "Immigration"

\* ------------------------------------------------------------------------
\* C21: when the user provides no text, no URL and no image, resolve_input
\* reports source_type None with an empty text and the warning "No input
\* provided.", and the run handler shows that error and stops before
\* run_rippletruth_pipeline is entered: no scoring stage runs.
\* ------------------------------------------------------------------------
NoInputProvided ==
    session.user_text = <<>> /\ session.url_value = <<>> /\ ~session.uploaded_image

C21_NoInputHalts ==
    (app.pc # "idle" /\ NoInputProvided) =>
        /\ app.resolved = [ text |-> <<>>, source_type |-> "None",
                            warnings |-> << "No input provided." >> ]
        /\ app.pc = "stopped"
        /\ app.ui = << Shown("st.error", Words(<< "No", "input", "provided." >>)) >>
        /\ pipe = IdleFrame

C21_Witness ==
    /\ NoInputProvided
    /\ session.input_type = "Image"
    /\ app.pc = "stopped"
    /\ app.resolved.source_type = "None"
    /\ pipe.stages = <<>>

\* ------------------------------------------------------------------------
\* C22: the AI enhancement module never stores the user's API key: once
\* run_ai_enhancement has returned, no module-level state holds the key it
\* was given, so a later call cannot observe it.
\* ------------------------------------------------------------------------
C22_KeyNeverStored ==
    call.fn = "run_ai_enhancement" => globals.openai_api_key = ""

\* ------------------------------------------------------------------------
\* C23: within one run of run_rippletruth_pipeline the stages run in a strict
\* dependency order: narrative classification and intention math are over
\* before traceback starts, traceback before interpretation, and the report
\* is assembled after every other stage; no stage reads an output that has
\* not been produced yet.
\* ------------------------------------------------------------------------
\* the stage results a stage about to run reads
StageReads(pc) ==
    CASE pc = "intention"        -> { "narrative" }
      [] pc = "traceback"        -> { "narrative", "intention" }
      [] pc = "narrative_engine" -> { "narrative", "intention" }
      [] pc = "interpretation"   -> { "narrative", "intention", "trace", "narrative_engine_output" }
      [] pc = "report"           -> { "narrative", "intention", "trace", "narrative_engine_output",
                                      "fact_stack_output", "interpretation" }
      [] OTHER                   -> {}

\* in the stages run so far, stage a is over before stage b starts
RunsBefore(a, b) ==
    \A j \in 1..Len(pipe.stages) :
        pipe.stages[j] = b => \E i \in 1..(j - 1) : pipe.stages[i] = a

AllStages ==
    << "narrative", "intention", "traceback", "narrative_engine", "fact_stack",
       "interpretation", "report" >>

C23_StagesInDependencyOrder ==
    /\ RunsBefore("narrative", "traceback")
    /\ RunsBefore("intention", "traceback")
    /\ RunsBefore("traceback", "interpretation")
    /\ \A i \in 1..(Len(AllStages) - 1) : RunsBefore(AllStages[i], "report")
    /\ \A i, j \in 1..Len(pipe.stages) : i # j => pipe.stages[i] # pipe.stages[j]
    /\ \A f \in StageReads(pipe.pc) : ~IsNone(pipe[f])

C23_Witness ==
    /\ pipe.pc = "returned"
    /\ pipe.stages = AllStages
    /\ ~IsNone(pipe.interpretation)

\* ------------------------------------------------------------------------
\* C24: when the intention metrics are there, run_traceback returns
\*   mutation_likelihood   = clamp(0.6*(1 - stability) + 0.4*volatility, 0, 1)
\*   amplification_pattern = clamp(((0.5*UCIP - 0.5*TTCF) + 1) / 2, 0, 1)
\*   RippleTruthIndex      = clamp(100*(0.35*stability + 0.25*UCIP
\*                             + 0.15*(1 - TTCF) + 0.15*RippleScore
\*                             + 0.10*(1 - Drift)), 1, 99)
\* for all inputs in [0,1].
\* ------------------------------------------------------------------------
TracebackReference(intention) ==
    LET s == intention.debug.stability
        v == intention.debug.volatility
        mutation == Clamp01((60 * (ONE - s) + 40 * v) \div 100)
        amplification == Clamp01((5 * intention.UCIP - 5 * intention.TTCF + 10 * ONE) \div 20)
        points == 35 * s + 25 * intention.UCIP + 15 * (ONE - intention.TTCF)
                  + 15 * intention.RippleScore + 10 * (ONE - intention.Drift)
        index == IF points < ONE THEN ONE ELSE IF points > 99 * ONE THEN 99 * ONE ELSE points
    IN  [ mutation_likelihood |-> mutation, amplification_pattern |-> amplification,
          RippleTruthIndex |-> index ]

AmplificationThreshold == (45 * ONE) \div 100

C25_InterpretationNamesArgMax ==
    MetricsGiven =>
        /\ ~IsRaised(call.result)
        /\ LET p == call.result.actor_probabilities
               said == call.result.interpretation
           IN  /\ said.actor \in DOMAIN p
               /\ \A a \in DOMAIN p : ~ProbLess(p[said.actor], p[a])
               /\ said.amplification \in { "Low", "High" }
               /\ said.amplification = "Low"
                    <=> call.result.amplification_pattern < AmplificationThreshold
               /\ said.amplification = "High"
                    <=> call.result.amplification_pattern >= AmplificationThreshold

\* the amplification pattern is 0.45 itself, and the label is High
C25_Witness ==
    /\ MetricsGiven
    /\ call.result.amplification_pattern = AmplificationThreshold
    /\ call.result.interpretation.amplification = "High"

\* the amplification pattern is below 0.45, and the label is Low
C25_WitnessLow ==
    /\ MetricsGiven
    /\ call.result.amplification_pattern < AmplificationThreshold
    /\ call.result.interpretation.amplification = "Low"

\* ------------------------------------------------------------------------
\* C26: for every intent_strength, stability, harmonics and RippleScore in
\* [0,1], _score_actor gives "Political Actor" a strictly larger probability
\* than each of the other three actors; so whenever the intention metrics
\* are there, the dominant actor named by run_traceback and by the
\* interpretation is "Political Actor", whatever the text.
\* ------------------------------------------------------------------------
C26_PoliticalActorDominates ==
    /\ MetricsGiven =>
         /\ ~IsRaised(call.result)
         /\ LET p == call.result.actor_probabilities
            IN  \A a \in DOMAIN p \ { "Political Actor" } : ProbLess(p[a], p["Political Actor"])
         /\ call.result.interpretation.actor = "Political Actor"
    /\ call.fn = "build_markdown_report" =>
         call.args.interpretation.fused_interpretation_paragraph[1].traceback_summary.top_actor
             = "Political Actor"

\* the scorer has run with the inputs that favour the media most: stability
\* and harmonics at 1, intent strength and RippleScore at 0
C26_Witness ==
    /\ MetricsGiven
    /\ call.args.intention.debug.intent_strength = 0
    /\ call.args.intention.debug.stability = ONE
    /\ call.args.intention.debug.harmonics = ONE
    /\ call.args.intention.RippleScore = 0
    /\ call.result.interpretation.actor = "Political Actor"

\* ------------------------------------------------------------------------
\* C27: for every UCIP and TTCF in [0,1] the amplification pattern lies in
\* [0.25, 0.75], so its clamp to [0,1] never takes effect; and because the
\* TTCF of run_intention_math is 0.76 * volatility <= 0.76, every
\* amplification pattern made in the pipeline is above 0.30 and the composed
\* interpretation never selects the "low amplification" band.
\* ------------------------------------------------------------------------
C27_AmplificationRange ==
    /\ MetricsGiven =>
         /\ ~IsRaised(call.result)
         /\ 4 * call.result.amplification_pattern >= ONE
         /\ 4 * call.result.amplification_pattern <= 3 * ONE
         /\ call.result.amplification_pattern
              = (5 * call.args.intention.UCIP - 5 * call.args.intention.TTCF + 10 * ONE) \div 20
    /\ call.fn = "run_intention_math" =>
         /\ call.result.TTCF = Round4((76 * call.args.volatility) \div 100)
         /\ 100 * call.result.TTCF <= 76 * ONE
         /\ Above(_amplification_pattern(call.result.UCIP, call.result.TTCF), 30)
    /\ call.fn = "build_markdown_report" =>
         call.args.interpretation.fused_interpretation_paragraph[1].traceback_summary.amp_desc
             # "low amplification"

\* the intention math has run on the vector that gives the lowest pattern of
\* the pipeline: volatility 1 and everything else 0, amplification 0.31
C27_Witness ==
    /\ call.fn = "run_intention_math"
    /\ call.args.volatility = ONE
    /\ call.result.UCIP = 0
    /\ 100 * call.result.TTCF = 76 * ONE
    /\ 100 * _amplification_pattern(call.result.UCIP, call.result.TTCF) = 31 * ONE

\* run_traceback has returned the lowest pattern there is, 0.25
C27_WitnessLowest ==
    /\ MetricsGiven
    /\ call.args.intention.UCIP = 0
    /\ call.args.intention.TTCF = ONE
    /\ 4 * call.result.amplification_pattern = ONE

\* ------------------------------------------------------------------------
\* C28: for every text the volatility feature is at most 0.45 (the standard
\* deviation of token values drawn from 0.1, 0.4 and 1.0, or the default
\* 0.1), so the TTCF of run_intention_math is at most 0.342 and the
\* interpretation never selects the "high chaos/distortion" band
\* (TTCF > 0.50) in the pipeline.
\* ------------------------------------------------------------------------
C28_VolatilityBounded ==
    /\ call.fn = "extract" =>
         LET metrics == ApplyIntentionMath(call.result)
         IN  /\ 100 * call.result.volatility <= 45 * ONE
             /\ 1000 * metrics.TTCF <= 342 * ONE
             /\ ~Above(metrics.TTCF, 50)
    /\ call.fn = "build_markdown_report" =>
         /\ 1000 * call.args.intention.TTCF <= 342 * ONE
         /\ call.args.interpretation.fused_interpretation_paragraph[1].intention_summary.ttc_desc
              # "high chaos/distortion"

\* the extractors have run on a text that is half violent words and half
\* calm words: the volatility is 0.45 itself and the TTCF 0.342
C28_Witness ==
    /\ call.fn = "extract"
    /\ Len(call.args.text) = 4
    /\ 100 * call.result.volatility = 45 * ONE
    /\ 1000 * ApplyIntentionMath(call.result).TTCF = 342 * ONE

\* ------------------------------------------------------------------------
\* C29: when the resolved text is empty or has fewer than 10 characters after
\* trimming, run_rippletruth_pipeline returns a result that holds an "error"
\* key and nothing else and runs none of the stages; for a text of 10 or more
\* trimmed characters the keys narrative, intention, traceback,
\* interpretation and markdown are all there.
\* ------------------------------------------------------------------------
TooShort(text) == text = <<>> \/ StripLen(text) < 10

C29_ShortTextErrorOnly ==
    /\ (pipe.pc \notin { "idle", "load" } /\ TooShort(pipe.text)) =>
         /\ pipe.pc = "returned"
         /\ DOMAIN pipe.result = { "error" }
         /\ pipe.stages = <<>>
         /\ \A f \in { "narrative", "intention", "trace", "interpretation" } : IsNone(pipe[f])
    /\ (PipelineOver /\ ~TooShort(pipe.text)) =>
         /\ pipe.pc = "returned"
         /\ (ReportKeys \cup { "markdown" }) \subseteq DOMAIN pipe.result
         /\ "error" \notin DOMAIN pipe.result

\* a call has returned on a text of 9 characters
C29_Witness ==
    /\ PipelineOver
    /\ StripLen(pipe.text) = 9
    /\ DOMAIN pipe.result = { "error" }

\* a call has returned on a text of 10 characters
C29_WitnessTen ==
    /\ PipelineOver
    /\ StripLen(pipe.text) = 10
    /\ "markdown" \in DOMAIN pipe.result

\* ------------------------------------------------------------------------
\* C30: in run_rippletruth_pipeline the force sub-score of the interpretation
\* does not depend on the text: NarrativeEngine.analyze returns the score
\* under the key "psiquant" and generate_interpretation reads "psi_quant", so
\* for every input the interpretation reports psi_quant_score 0, the force
\* label LOW and all four psi detail values 0.
\* ------------------------------------------------------------------------
C30_ForceScoreAlwaysZero ==
    ~IsNone(pipe.interpretation) =>
        /\ "psiquant" \in DOMAIN pipe.narrative_engine_output
        /\ "psi_quant" \notin DOMAIN pipe.narrative_engine_output
        /\ pipe.narrative_engine_output.psiquant = compute_psiquant(pipe.text)
        /\ pipe.interpretation.psi_quant_score = 0
        /\ pipe.interpretation.force_label = "LOW"
        /\ pipe.interpretation.summary = "LOW"
        /\ pipe.interpretation.psi_quant_analysis.force_label = "LOW"
        /\ pipe.interpretation.psi_details
             = [ emotionality |-> 0, chaos_factor |-> 0, coherence |-> 0, intent_strength |-> 0 ]

\* the interpretation of a text whose Psi-Quant score is not 0 has been made
C30_Witness ==
    /\ pipe.pc = "returned"
    /\ "interpretation" \in DOMAIN pipe.result
    /\ pipe.result.narrative_engine.psiquant > 0
    /\ pipe.result.interpretation.psi_quant_score = 0
    /\ pipe.result.interpretation.force_label = "LOW"

====
